---------------------------- MODULE Spec2Model ----------------------------
(***************************************************************************)
(* A state-machine model of RegexMatcher (icu4c/source/i18n/rematch.cpp):  *)
(* the matcher facade (reset, find, lookingAt, matches, start, end, group, *)
(* replaceAll, replaceFirst), the bytecode interpreter MatchAt, one action *)
(* per opcode, and the backtrack stack of 32-bit cells.                    *)
(*                                                                         *)
(* The subject is a sequence of UTF-16 code units (integers).  A compiled  *)
(* pattern is a record: code (instruction words, each a record of its     *)
(* URX_TYPE and URX_VAL), literalText, sets, fNumCaptureGroups and         *)
(* fMaxCaptureDigits.  Pattern indices are 0-based as in the source; TLA+  *)
(* sequences are 1-based, so word i of the code is code[i + 1].            *)
(***************************************************************************)
EXTENDS Integers, Sequences, FiniteSets, TLC

(***************************************************************************)
(* Bounds of the model.                                                    *)
(***************************************************************************)
\* longest subject, in code units
MaxLen == 3
\* most frames the backtrack stack may hold when STATE_SAVE pushes one more
MaxFrames == 3

(***************************************************************************)
(* Program constants.                                                      *)
(***************************************************************************)
BACKSLASH == 92
DOLLARSIGN == 36
\* the polarity flag in the operand of URX_STATIC_SETREF
URX_NEG_SET == 8388608
\* index of the word set in fStaticSets
URX_ISWORD_SET == 1

U_ZERO_ERROR == "U_ZERO_ERROR"
U_ILLEGAL_ARGUMENT_ERROR == "U_ILLEGAL_ARGUMENT_ERROR"
U_REGEX_INVALID_STATE == "U_REGEX_INVALID_STATE"
U_INDEX_OUTOFBOUNDS_ERROR == "U_INDEX_OUTOFBOUNDS_ERROR"
U_MEMORY_ALLOCATION_ERROR == "U_MEMORY_ALLOCATION_ERROR"

U_FAILURE(code) == code # U_ZERO_ERROR

\* fInput before reset(input) binds a subject
NULL == << -1 >>

(***************************************************************************)
(* Unicode primitives over a UTF-16 subject.                               *)
(***************************************************************************)
U16_IS_LEAD(c) == c >= 55296 /\ c <= 56319
U16_IS_TRAIL(c) == c >= 56320 /\ c <= 57343
U16_GET_SUPPLEMENTARY(lead, trail) == (lead - 55296) * 1024 + (trail - 56320) + 65536

\* s[i], the code unit at 0-based index i
charAt(s, i) == s[i + 1]

\* U16_NEXT(s, i, length, c): << c, the index after it >>
U16_NEXT(s, i, length) ==
    LET c == charAt(s, i)
    IN  IF U16_IS_LEAD(c) /\ i + 1 < length /\ U16_IS_TRAIL(charAt(s, i + 1))
        THEN << U16_GET_SUPPLEMENTARY(c, charAt(s, i + 1)), i + 2 >>
        ELSE << c, i + 1 >>

\* UnicodeString::char32At: the code point that contains the code unit at
\* offset; 0xffff when offset is outside the string
char32At(s, offset) ==
    IF offset < 0 \/ offset >= Len(s) THEN 65535
    ELSE LET c == charAt(s, offset)
         IN  IF U16_IS_LEAD(c) /\ offset + 1 < Len(s) /\ U16_IS_TRAIL(charAt(s, offset + 1))
             THEN U16_GET_SUPPLEMENTARY(c, charAt(s, offset + 1))
             ELSE IF U16_IS_TRAIL(c) /\ offset > 0 /\ U16_IS_LEAD(charAt(s, offset - 1))
             THEN U16_GET_SUPPLEMENTARY(charAt(s, offset - 1), c)
             ELSE c

\* UnicodeString::moveIndex32(index, delta) for delta = 1 and delta = -1
moveIndex32(s, index, delta) ==
    LET len == Len(s)
        i == IF index < 0 THEN 0 ELSE IF index > len THEN len ELSE index
    IN  IF delta > 0
        THEN IF i >= len THEN i
             ELSE IF U16_IS_LEAD(charAt(s, i)) /\ i + 1 < len /\ U16_IS_TRAIL(charAt(s, i + 1))
             THEN i + 2
             ELSE i + 1
        ELSE IF i <= 0 THEN i
             ELSE IF U16_IS_TRAIL(charAt(s, i - 1)) /\ i - 1 > 0 /\ U16_IS_LEAD(charAt(s, i - 2))
             THEN i - 2
             ELSE i - 1

\* u_charType, for the general categories the engine tests
u_charType(c) ==
    IF c >= 48 /\ c <= 57 THEN "U_DECIMAL_DIGIT_NUMBER"
    ELSE IF c >= 768 /\ c <= 879 THEN "U_NON_SPACING_MARK"
    ELSE IF c >= 8413 /\ c <= 8416 THEN "U_ENCLOSING_MARK"
    ELSE IF c < 32 \/ (c >= 127 /\ c <= 159) THEN "U_CONTROL_CHAR"
    ELSE "U_OTHER"

u_isdigit(c) == u_charType(c) = "U_DECIMAL_DIGIT_NUMBER"
u_charDigitValue(c) == c - 48

\* fStaticSets[URX_ISWORD_SET]->contains(c): letters, digits, marks, '_'
IsWordChar(c) ==
    \/ c >= 48 /\ c <= 57
    \/ c >= 65 /\ c <= 90
    \/ c >= 97 /\ c <= 122
    \/ c = 95
    \/ c >= 768 /\ c <= 879
    \/ c >= 65536 /\ c <= 65629

\* UnicodeString(src, srcStart, srcLength) and append(src, srcStart, srcLength):
\* the range is pinned to the source string
Substring(src, srcStart, srcLength) ==
    LET st == IF srcStart < 0 THEN 0 ELSE IF srcStart > Len(src) THEN Len(src) ELSE srcStart
        ln == IF srcLength < 0 THEN 0
              ELSE IF srcLength > Len(src) - st THEN Len(src) - st ELSE srcLength
    IN  SubSeq(src, st + 1, st + ln)


(***************************************************************************)
(* Compiled patterns.  An instruction word is the record of its opcode     *)
(* (URX_TYPE) and its operand (URX_VAL).  Every pattern opens with the     *)
(* frame that leads a failed match to URX_FAIL (STATE_SAVE 2, JMP 3, FAIL) *)
(* and closes with URX_END.                                                *)
(***************************************************************************)
URX_BUILD(type, val) == [type |-> type, val |-> val]
URX_TYPE(op) == op.type
URX_VAL(op) == op.val

CompiledPattern(code, literalText, sets, numCaptureGroups) ==
    [fCompiledPat |-> code, fLiteralText |-> literalText, fSets |-> sets,
     fNumCaptureGroups |-> numCaptureGroups, fMaxCaptureDigits |-> 1]

Prologue ==
    << URX_BUILD("URX_STATE_SAVE", 2), URX_BUILD("URX_JMP", 3), URX_BUILD("URX_FAIL", 0) >>

\* a
PatLiteral ==
    CompiledPattern(Prologue \o
        << URX_BUILD("URX_NOP", 0), URX_BUILD("URX_ONECHAR", 97), URX_BUILD("URX_END", 0) >>,
        << >>, << >>, 0)

\* (a)|(b)
PatAlternation ==
    CompiledPattern(Prologue \o
        << URX_BUILD("URX_STATE_SAVE", 8),
           URX_BUILD("URX_START_CAPTURE", 1), URX_BUILD("URX_ONECHAR", 97),
           URX_BUILD("URX_END_CAPTURE", 1), URX_BUILD("URX_JMP", 11),
           URX_BUILD("URX_START_CAPTURE", 2), URX_BUILD("URX_ONECHAR", 98),
           URX_BUILD("URX_END_CAPTURE", 2), URX_BUILD("URX_END", 0) >>,
        << >>, << >>, 2)

\* a*
PatStar ==
    CompiledPattern(Prologue \o
        << URX_BUILD("URX_STATE_SAVE", 6), URX_BUILD("URX_ONECHAR", 97),
           URX_BUILD("URX_JMP", 3), URX_BUILD("URX_END", 0) >>,
        << >>, << >>, 0)

\* (a)b|a
PatCaptureBacktrack ==
    CompiledPattern(Prologue \o
        << URX_BUILD("URX_STATE_SAVE", 9),
           URX_BUILD("URX_START_CAPTURE", 1), URX_BUILD("URX_ONECHAR", 97),
           URX_BUILD("URX_END_CAPTURE", 1), URX_BUILD("URX_ONECHAR", 98),
           URX_BUILD("URX_JMP", 10),
           URX_BUILD("URX_ONECHAR", 97), URX_BUILD("URX_END", 0) >>,
        << >>, << >>, 1)

\* ^.$
PatAnchors ==
    CompiledPattern(Prologue \o
        << URX_BUILD("URX_CARET", 0), URX_BUILD("URX_DOTANY", 0),
           URX_BUILD("URX_DOLLAR", 0), URX_BUILD("URX_END", 0) >>,
        << >>, << >>, 0)

\* \b
PatWordBoundary ==
    CompiledPattern(Prologue \o
        << URX_BUILD("URX_BACKSLASH_B", 0), URX_BUILD("URX_END", 0) >>,
        << >>, << >>, 0)

\* \Ga
PatBackslashG ==
    CompiledPattern(Prologue \o
        << URX_BUILD("URX_BACKSLASH_G", 0), URX_BUILD("URX_ONECHAR", 97),
           URX_BUILD("URX_END", 0) >>,
        << >>, << >>, 0)

\* \X
PatGrapheme ==
    CompiledPattern(Prologue \o
        << URX_BUILD("URX_BACKSLASH_X", 0), URX_BUILD("URX_END", 0) >>,
        << >>, << >>, 0)

\* . in dot-all mode
PatDotAll ==
    CompiledPattern(Prologue \o
        << URX_BUILD("URX_DOTANY_ALL", 0), URX_BUILD("URX_END", 0) >>,
        << >>, << >>, 0)

\* \d\D
PatDigits ==
    CompiledPattern(Prologue \o
        << URX_BUILD("URX_BACKSLASH_D", 0), URX_BUILD("URX_BACKSLASH_D", 1),
           URX_BUILD("URX_END", 0) >>,
        << >>, << >>, 0)

\* \w\W|[b]
PatSets ==
    CompiledPattern(Prologue \o
        << URX_BUILD("URX_STATE_SAVE", 7),
           URX_BUILD("URX_STATIC_SETREF", URX_ISWORD_SET),
           URX_BUILD("URX_STATIC_SETREF", URX_NEG_SET + URX_ISWORD_SET),
           URX_BUILD("URX_JMP", 8),
           URX_BUILD("URX_SETREF", 1), URX_BUILD("URX_END", 0) >>,
        << >>, << {}, {98} >>, 0)

\* \A(?:ab|<nothing can match>)\z
PatString ==
    CompiledPattern(Prologue \o
        << URX_BUILD("URX_BACKSLASH_A", 0), URX_BUILD("URX_STATE_SAVE", 8),
           URX_BUILD("URX_STRING", 0), URX_BUILD("URX_STRING_LEN", 2),
           URX_BUILD("URX_JMP", 9), URX_BUILD("URX_BACKTRACK", 0),
           URX_BUILD("URX_BACKSLASH_Z", 0), URX_BUILD("URX_END", 0) >>,
        << 97, 98 >>, << >>, 0)

\* a|b as a sequence of instruction words that does not open with the frame
\* leading to URX_FAIL: the fields and operand ranges are those of a compiled
\* pattern, the opening is not the one RegexCompile emits
PatNoFailFrame ==
    CompiledPattern(
        << URX_BUILD("URX_STATE_SAVE", 3), URX_BUILD("URX_ONECHAR", 97),
           URX_BUILD("URX_JMP", 4), URX_BUILD("URX_ONECHAR", 98),
           URX_BUILD("URX_END", 0) >>,
        << >>, << >>, 0)

\* $
PatDollar ==
    CompiledPattern(Prologue \o
        << URX_BUILD("URX_DOLLAR", 0), URX_BUILD("URX_END", 0) >>,
        << >>, << >>, 0)

\* \B
PatNotWordBoundary ==
    CompiledPattern(Prologue \o
        << URX_BUILD("URX_BACKSLASH_B", 1), URX_BUILD("URX_END", 0) >>,
        << >>, << >>, 0)

\* \x{10000}
PatSupplementary ==
    CompiledPattern(Prologue \o
        << URX_BUILD("URX_ONECHAR", 65536), URX_BUILD("URX_END", 0) >>,
        << >>, << >>, 0)

\* [a\x{10000}]
PatSupplementarySet ==
    CompiledPattern(Prologue \o
        << URX_BUILD("URX_SETREF", 1), URX_BUILD("URX_END", 0) >>,
        << >>, << {}, {97, 65536} >>, 0)

\* \W
PatNotWord ==
    CompiledPattern(Prologue \o
        << URX_BUILD("URX_STATIC_SETREF", URX_NEG_SET + URX_ISWORD_SET),
           URX_BUILD("URX_END", 0) >>,
        << >>, << >>, 0)

\* .
PatDot ==
    CompiledPattern(Prologue \o
        << URX_BUILD("URX_DOTANY", 0), URX_BUILD("URX_END", 0) >>,
        << >>, << >>, 0)

\* \D
PatNotDigit ==
    CompiledPattern(Prologue \o
        << URX_BUILD("URX_BACKSLASH_D", 1), URX_BUILD("URX_END", 0) >>,
        << >>, << >>, 0)

\* the patterns of one consuming opcode each
CodePointPatterns ==
    << PatSupplementary, PatSupplementarySet, PatNotWord, PatDot, PatDotAll,
       PatNotDigit, PatGrapheme >>

\* a|ab
PatPrefixFirst ==
    CompiledPattern(Prologue \o
        << URX_BUILD("URX_STATE_SAVE", 6), URX_BUILD("URX_ONECHAR", 97),
           URX_BUILD("URX_JMP", 8),
           URX_BUILD("URX_ONECHAR", 97), URX_BUILD("URX_ONECHAR", 98),
           URX_BUILD("URX_END", 0) >>,
        << >>, << >>, 0)

\* \z
PatEndOnly ==
    CompiledPattern(Prologue \o
        << URX_BUILD("URX_BACKSLASH_Z", 0), URX_BUILD("URX_END", 0) >>,
        << >>, << >>, 0)

Patterns ==
    << PatLiteral, PatAlternation, PatStar, PatCaptureBacktrack, PatAnchors,
       PatWordBoundary, PatBackslashG, PatGrapheme, PatDotAll, PatDigits,
       PatSets, PatString >>

\* "a" with each of the line terminators, and CR with LF
LineEndAlphabets ==
    { {97, 10}, {97, 13}, {97, 12}, {97, 133}, {97, 8232}, {97, 8233}, {13, 10} }

\* a letter, a space and a non-spacing mark; the same with an enclosing mark;
\* a space and the halves of the supplementary letter U+10000
WordAlphabets == { {97, 32, 769}, {97, 32, 8413}, {55296, 56320, 32} }

\* the halves of the letter U+10000 and of U+103FF, which is no letter, over
\* one lead and two trails; a pair and 'a'; a pair and a non-spacing mark;
\* CR, LF and 'a'
CodePointAlphabets ==
    { {55296, 56320, 57343}, {55296, 57343, 97}, {55296, 56320, 769}, {13, 10, 97} }

\* the six line terminators with 'a'; a surrogate pair with LF and with a
\* non-spacing mark; 'e' with a non-spacing and an enclosing mark; CR and TAB
\* with a mark
ClusterAlphabets ==
    { {13, 10, 97}, {12, 133, 97}, {8232, 8233, 97}, {55296, 56320, 10},
      {55296, 56320, 769}, {101, 769, 8413}, {13, 769, 10}, {9, 769, 97} }

\* the alphabets the subjects of each pattern are written in
Alphabets ==
    << {{97, 98}}, {{97, 98}}, {{97, 98}}, {{97, 98}}, {{97, 10}, {13, 10}},
       {{97, 32}, {97, 769}}, {{97, 98}}, {{101, 769}, {13, 10}},
       {{97, 13}, {13, 10}}, {{49, 97}}, {{97, 32}, {97, 98}}, {{97, 98}},
       \* for PatNoFailFrame, numbered Len(Patterns) + 1
       {{97, 98}},
       \* for ^.$ and $ over every line terminator, numbered Len(Patterns) + 2
       \* and Len(Patterns) + 3
       LineEndAlphabets, LineEndAlphabets,
       \* for \b and \B over marks and a supplementary letter, numbered
       \* Len(Patterns) + 4 and Len(Patterns) + 5
       WordAlphabets, WordAlphabets,
       \* for the CodePointPatterns, numbered from Len(Patterns) + 6 on
       CodePointAlphabets, CodePointAlphabets, CodePointAlphabets,
       CodePointAlphabets, CodePointAlphabets, CodePointAlphabets,
       CodePointAlphabets,
       \* for ., dot-all . and \X over terminators, controls and marks,
       \* numbered Len(Patterns) + 13 to Len(Patterns) + 15
       ClusterAlphabets, ClusterAlphabets, ClusterAlphabets,
       \* for a|ab and \z, numbered Len(Patterns) + 16 and Len(Patterns) + 17
       {{97, 98}}, {{97, 98}} >>

\* the subjects of pattern p: every string of up to MaxLen code units over
\* one of its alphabets
Subjects(p) == UNION { [1..n -> A] : n \in 0..MaxLen, A \in Alphabets[p] }

\* the replacement texts: $0 and $1x
Replacements == { << DOLLARSIGN, 48 >>, << DOLLARSIGN, 49, 120 >> }
\* the replacement texts appendReplacement is called with directly:
\* "$0", "$1x", "$12", "\$0", "x\", "$", "$x\\y", "x$2"
ReplacementTexts ==
    Replacements \cup
    { << DOLLARSIGN, 49, 50 >>, << BACKSLASH, DOLLARSIGN, 48 >>, << 120, BACKSLASH >>,
      << DOLLARSIGN >>, << DOLLARSIGN, 120, BACKSLASH, BACKSLASH, 121 >>,
      << 120, DOLLARSIGN, 50 >> }
\* the destination strings appendReplacement and appendTail are called with
Dests == { << >>, << 122 >> }

(***************************************************************************)
(* State.                                                                  *)
(***************************************************************************)
VARIABLES
    \* the RegexPattern object fPattern points to, which every matcher made
    \* from the pattern shares
    sharedPattern,
    \* RegexMatcher's fields
    fPattern, fInput, fInputLength, fMatchStart, fMatchEnd, fLastMatchEnd,
    fMatch, fCaptureStarts, fCaptureEnds, fBackTrackStack,
    \* where the running call stands, and the public operation it serves
    pc, call,
    \* locals: find's startPos and status, MatchAt's startIdx, inputIdx, patIdx
    startPos, status, startIdx, stackBase, inputIdx, patIdx,
    \* replaceAll / replaceFirst: destString and the replacement text
    destString, replacement,
    \* what the last public call returned, and the caller's UErrorCode after it
    ret, err,
    \* history of the running find(): fMatchEnd on entry, and the start
    \* positions at which MatchAt has returned without a match
    priorMatchEnd, failedAt,
    \* more history: the start of the match found by the find() called just
    \* before this one (-1 when the call before was not a find() that returned
    \* true), and the times the body of replaceAll's loop has run
    priorMatchStart, iterations,
    \* the caller of appendReplacement / appendTail: its destination string and
    \* its UErrorCode, and where it stands in an append loop of its own
    userDest, userStatus, protocol,
    \* a second RegexMatcher made from the same pattern, with the call it is
    \* in: the caller runs one of the two matchers at a time
    otherMatcher

matcher ==
    << fPattern, sharedPattern, fInput, fInputLength, fMatchStart, fMatchEnd, fLastMatchEnd,
       fMatch, fCaptureStarts, fCaptureEnds, fBackTrackStack >>
locals == << startPos, status, startIdx, stackBase, inputIdx, patIdx >>
history == << priorMatchStart, iterations >>
caller == << userDest, userStatus, protocol, otherMatcher >>
vars ==
    << fPattern, sharedPattern, fInput, fInputLength, fMatchStart, fMatchEnd, fLastMatchEnd,
       fMatch, fCaptureStarts, fCaptureEnds, fBackTrackStack, pc, call,
       startPos, status, startIdx, stackBase, inputIdx, patIdx, destString, replacement,
       ret, err, priorMatchEnd, failedAt, priorMatchStart, iterations,
       userDest, userStatus, protocol, otherMatcher >>

fNumCaptureGroups == sharedPattern.fNumCaptureGroups
fMaxCaptureDigits == sharedPattern.fMaxCaptureDigits
\* pat[i]: word i of the compiled pattern
pat(i) == sharedPattern.fCompiledPat[i + 1]
fCaptureStateSize == fNumCaptureGroups * 2 + 2

\* RegexMatcher::RegexMatcher(pat), for a matcher that is not the running one:
\* its fields, and the caller's view of it
Constructed(p) ==
    [ fInput |-> NULL, fInputLength |-> 0,
      fMatchStart |-> 0, fMatchEnd |-> 0, fLastMatchEnd |-> 0,
      fMatch |-> FALSE,
      fCaptureStarts |-> [i \in 0..p.fNumCaptureGroups |-> -1],
      fCaptureEnds |-> [i \in 0..p.fNumCaptureGroups |-> -1],
      fBackTrackStack |-> << >>,
      pc |-> "returned", call |-> "RegexMatcher",
      startPos |-> 0, status |-> U_ZERO_ERROR,
      startIdx |-> 0, stackBase |-> 0, inputIdx |-> 0, patIdx |-> 0,
      ret |-> "void", err |-> U_ZERO_ERROR,
      priorMatchEnd |-> 0, failedAt |-> {},
      priorMatchStart |-> -1, iterations |-> 0 ]

\* RegexMatcher::RegexMatcher(pat), pat being the pattern numbered id with
\* the compiled form p
RegexMatcher(id, p) ==
    /\ fPattern = id
    /\ sharedPattern = p
    /\ fInput = NULL
    /\ fInputLength = 0
    /\ fBackTrackStack = << >>
    /\ fCaptureStarts = [i \in 0..p.fNumCaptureGroups |-> -1]
    /\ fCaptureEnds = [i \in 0..p.fNumCaptureGroups |-> -1]
    /\ fMatchStart = 0 /\ fMatchEnd = 0 /\ fLastMatchEnd = 0 /\ fMatch = FALSE
    /\ pc = "returned" /\ call = "RegexMatcher"
    /\ startPos = 0 /\ status = U_ZERO_ERROR
    /\ startIdx = 0 /\ stackBase = 0 /\ inputIdx = 0 /\ patIdx = 0
    /\ destString = << >> /\ replacement = << >>
    /\ ret = "void" /\ err = U_ZERO_ERROR
    /\ priorMatchEnd = 0 /\ failedAt = {}
    /\ priorMatchStart = -1 /\ iterations = 0
    /\ otherMatcher = Constructed(p)
    /\ userDest = << >> /\ userStatus = U_ZERO_ERROR
    /\ protocol = [phase |-> "none", input |-> NULL, repl |-> << >>, lastEnd |-> 0]

\* a matcher is constructed over one of the patterns
Init == \E id \in 1..Len(Patterns) : RegexMatcher(id, Patterns[id])

(***************************************************************************)
(* Accessors: const member functions, operators on the matcher's state.    *)
(* Each yields its return value and the status it leaves in err.           *)
(***************************************************************************)
\* a faulty start: the group number is checked before the match flag
start_IndexFirst(group, e) ==
    IF U_FAILURE(e) THEN [val |-> -1, status |-> e]
    ELSE IF group < 0 \/ group > fNumCaptureGroups
    THEN [val |-> -1, status |-> U_INDEX_OUTOFBOUNDS_ERROR]
    ELSE IF fMatch = FALSE THEN [val |-> -1, status |-> U_REGEX_INVALID_STATE]
    ELSE IF group = 0 THEN [val |-> fMatchStart, status |-> e]
    ELSE [val |-> fCaptureStarts[group], status |-> e]

\* start(group, err)
start(group, e) ==
    IF U_FAILURE(e) THEN [val |-> -1, status |-> e]
    ELSE IF fMatch = FALSE THEN [val |-> -1, status |-> U_REGEX_INVALID_STATE]
    ELSE IF group < 0 \/ group > fNumCaptureGroups
    THEN [val |-> -1, status |-> U_INDEX_OUTOFBOUNDS_ERROR]
    ELSE IF group = 0 THEN [val |-> fMatchStart, status |-> e]
    ELSE [val |-> fCaptureStarts[group], status |-> e]

\* a faulty end: captureEnds is reported without looking at captureStarts
end_StaleEnd(group, e) ==
    IF U_FAILURE(e) THEN [val |-> -1, status |-> e]
    ELSE IF fMatch = FALSE THEN [val |-> -1, status |-> U_REGEX_INVALID_STATE]
    ELSE IF group < 0 \/ group > fNumCaptureGroups
    THEN [val |-> -1, status |-> U_INDEX_OUTOFBOUNDS_ERROR]
    ELSE IF group = 0 THEN [val |-> fMatchEnd, status |-> e]
    ELSE [val |-> fCaptureEnds[group], status |-> e]

\* end(group, err)
end(group, e) ==
    IF U_FAILURE(e) THEN [val |-> -1, status |-> e]
    ELSE IF fMatch = FALSE THEN [val |-> -1, status |-> U_REGEX_INVALID_STATE]
    ELSE IF group < 0 \/ group > fNumCaptureGroups
    THEN [val |-> -1, status |-> U_INDEX_OUTOFBOUNDS_ERROR]
    ELSE IF group = 0 THEN [val |-> fMatchEnd, status |-> e]
    ELSE IF fCaptureStarts[group] # -1
    THEN [val |-> fCaptureEnds[group], status |-> e]
    ELSE [val |-> -1, status |-> e]

\* a faulty group: the end of the group is taken for its length
group_EndAsLength(groupNum, e) ==
    LET s == start(groupNum, e)
        en == end(groupNum, s.status)
    IN  IF U_FAILURE(en.status) THEN [val |-> << >>, status |-> en.status]
        ELSE IF s.val < 0 THEN [val |-> << >>, status |-> en.status]
        ELSE [val |-> Substring(fInput, s.val, en.val), status |-> en.status]

\* group(groupNum, status)
group(groupNum, e) ==
    LET s == start(groupNum, e)
        en == end(groupNum, s.status)
    IN  IF U_FAILURE(en.status) THEN [val |-> << >>, status |-> en.status]
        ELSE IF s.val < 0 THEN [val |-> << >>, status |-> en.status]
        ELSE [val |-> Substring(fInput, s.val, en.val - s.val), status |-> en.status]

(***************************************************************************)
(* appendReplacement and appendTail, as functions of dest.                 *)
(***************************************************************************)
\* a faulty scan of the digits after a '$': every digit is consumed
RECURSIVE ScanDigits_AllDigits(_, _, _, _)
ScanDigits_AllDigits(repl, replIdx, groupNum, numDigits) ==
    IF replIdx >= Len(repl) THEN << replIdx, groupNum, numDigits >>
    ELSE LET digitC == char32At(repl, replIdx)
         IN  IF ~u_isdigit(digitC) THEN << replIdx, groupNum, numDigits >>
             ELSE ScanDigits_AllDigits(repl, moveIndex32(repl, replIdx, 1),
                                       groupNum * 10 + u_charDigitValue(digitC),
                                       numDigits + 1)

\* the digits after a '$': << the index after them, groupNum, numDigits >>
RECURSIVE ScanDigits(_, _, _, _)
ScanDigits(repl, replIdx, groupNum, numDigits) ==
    IF replIdx >= Len(repl) THEN << replIdx, groupNum, numDigits >>
    ELSE LET digitC == char32At(repl, replIdx)
         IN  IF ~u_isdigit(digitC) THEN << replIdx, groupNum, numDigits >>
             ELSE IF numDigits + 1 >= fMaxCaptureDigits
             THEN << moveIndex32(repl, replIdx, 1),
                     groupNum * 10 + u_charDigitValue(digitC), numDigits + 1 >>
             ELSE ScanDigits(repl, moveIndex32(repl, replIdx, 1),
                             groupNum * 10 + u_charDigitValue(digitC), numDigits + 1)

\* a faulty scan of the replacement text: it goes on behind a group that
\* failed
RECURSIVE ExpandReplacement_GoesOn(_, _, _, _)
ExpandReplacement_GoesOn(dest, repl, replIdx, e) ==
    IF replIdx >= Len(repl) THEN [dest |-> dest, status |-> e]
    ELSE LET c == charAt(repl, replIdx)
         IN  IF c = BACKSLASH
             THEN IF replIdx + 1 >= Len(repl) THEN [dest |-> dest, status |-> e]
                  ELSE ExpandReplacement_GoesOn(Append(dest, charAt(repl, replIdx + 1)),
                                                repl, replIdx + 2, e)
             ELSE IF c # DOLLARSIGN
             THEN ExpandReplacement_GoesOn(Append(dest, c), repl, replIdx + 1, e)
             ELSE LET d == ScanDigits(repl, replIdx + 1, 0, 0)
                  IN  IF d[3] = 0
                      THEN ExpandReplacement_GoesOn(Append(dest, DOLLARSIGN), repl, d[1], e)
                      ELSE LET g == group(d[2], e)
                           IN  ExpandReplacement_GoesOn(dest \o g.val, repl, d[1], g.status)

\* the scan of the replacement text from replIdx on
RECURSIVE ExpandReplacement(_, _, _, _)
ExpandReplacement(dest, repl, replIdx, e) ==
    IF replIdx >= Len(repl) THEN [dest |-> dest, status |-> e]
    ELSE LET c == charAt(repl, replIdx)
         IN  IF c = BACKSLASH
             THEN IF replIdx + 1 >= Len(repl) THEN [dest |-> dest, status |-> e]
                  ELSE ExpandReplacement(Append(dest, charAt(repl, replIdx + 1)),
                                         repl, replIdx + 2, e)
             ELSE IF c # DOLLARSIGN
             THEN ExpandReplacement(Append(dest, c), repl, replIdx + 1, e)
             ELSE LET d == ScanDigits(repl, replIdx + 1, 0, 0)
                  IN  IF d[3] = 0
                      THEN ExpandReplacement(Append(dest, DOLLARSIGN), repl, d[1], e)
                      ELSE LET g == group(d[2], e)
                           IN  IF U_FAILURE(g.status)
                               THEN [dest |-> dest \o g.val, status |-> g.status]
                               ELSE ExpandReplacement(dest \o g.val, repl, d[1], g.status)

\* a faulty appendReplacement: the match flag is not looked at
appendReplacement_NoStateCheck(dest, repl, e) ==
    IF U_FAILURE(e) THEN [dest |-> dest, status |-> e]
    ELSE LET len == fMatchStart - fLastMatchEnd
             between == IF len > 0 THEN Substring(fInput, fLastMatchEnd, len) ELSE << >>
         IN  ExpandReplacement(dest \o between, repl, 0, e)

\* appendReplacement(dest, replacement, status)
appendReplacement(dest, repl, e) ==
    IF U_FAILURE(e) THEN [dest |-> dest, status |-> e]
    ELSE IF fMatch = FALSE THEN [dest |-> dest, status |-> U_REGEX_INVALID_STATE]
    ELSE LET len == fMatchStart - fLastMatchEnd
             between == IF len > 0 THEN Substring(fInput, fLastMatchEnd, len) ELSE << >>
         IN  ExpandReplacement(dest \o between, repl, 0, e)

\* a faulty appendTail: the text after the last match is dropped
appendTail_Nothing(dest) ==
    dest

\* a faulty appendTail: the text from the start of the last match on is appended
appendTail_FromMatchStart(dest) ==
    LET len == fInputLength - fMatchStart
    IN  IF len > 0 THEN dest \o Substring(fInput, fMatchStart, len) ELSE dest

\* appendTail(dest)
appendTail(dest) ==
    LET len == fInputLength - fMatchEnd
    IN  IF len > 0 THEN dest \o Substring(fInput, fMatchEnd, len) ELSE dest


(***************************************************************************)
(* Calls and returns.                                                      *)
(***************************************************************************)
\* a public operation is entered; prior is where its find() scan starts
Enter(name, prior) ==
    /\ pc = "idle"
    /\ call' = name
    /\ priorMatchEnd' = prior
    /\ failedAt' = {}
    /\ priorMatchStart' = IF name = "find" THEN priorMatchStart ELSE -1
    /\ iterations' = 0

\* the running public operation returns value, leaving e in the caller's
\* status; its locals die
Return(value, e) ==
    /\ pc' = "returned"
    /\ ret' = value
    /\ err' = e
    /\ startPos' = 0 /\ status' = U_ZERO_ERROR
    /\ startIdx' = 0 /\ stackBase' = 0 /\ inputIdx' = 0 /\ patIdx' = 0
    /\ destString' = << >>
    /\ UNCHANGED << replacement, caller >>

\* a faulty reset: lastMatchEnd is left as it was
reset_KeepsLastMatchEnd ==
    /\ fMatchStart' = 0
    /\ fMatchEnd' = 0
    /\ fLastMatchEnd' = fLastMatchEnd
    /\ fMatch' = FALSE
    /\ fCaptureStarts' = [i \in 0..fNumCaptureGroups |-> -1]

\* a faulty reset: the match flag and the bounds of the last match are left
\* as they were
reset_KeepsMatch ==
    /\ fMatchStart' = fMatchStart
    /\ fMatchEnd' = fMatchEnd
    /\ fLastMatchEnd' = 0
    /\ fMatch' = fMatch
    /\ fCaptureStarts' = [i \in 0..fNumCaptureGroups |-> -1]

\* reset()
reset ==
    /\ fMatchStart' = 0
    /\ fMatchEnd' = 0
    /\ fLastMatchEnd' = 0
    /\ fMatch' = FALSE
    /\ fCaptureStarts' = [i \in 0..fNumCaptureGroups |-> -1]

\* MatchAt(idx, status) up to its main loop
EnterMatchAt(idx) ==
    /\ startIdx' = idx
    /\ stackBase' = Len(fBackTrackStack)
    /\ inputIdx' = idx
    /\ patIdx' = 0
    /\ fCaptureStarts' = [i \in 0..fNumCaptureGroups |-> -1]
    /\ pc' = "MatchAt"

\* a faulty exit of MatchAt: the ends of the match are recorded swapped
ExitMatchAt_Swapped(isMatch) ==
    /\ fMatch' = isMatch
    /\ IF isMatch
       THEN /\ fLastMatchEnd' = fMatchEnd
            /\ fMatchStart' = inputIdx
            /\ fMatchEnd' = startIdx
       ELSE UNCHANGED << fLastMatchEnd, fMatchStart, fMatchEnd >>
    /\ pc' = CASE call = "lookingAt" -> "lookingAt"
               [] call = "matches" -> "matches"
               [] OTHER -> "find_ret"

\* a faulty exit of MatchAt: fLastMatchEnd gets the end of the new match, and
\* a failed attempt clears the bounds of the last match
ExitMatchAt_NewEnd(isMatch) ==
    /\ fMatch' = isMatch
    /\ IF isMatch
       THEN /\ fLastMatchEnd' = inputIdx
            /\ fMatchStart' = startIdx
            /\ fMatchEnd' = inputIdx
       ELSE /\ fLastMatchEnd' = fLastMatchEnd
            /\ fMatchStart' = 0
            /\ fMatchEnd' = 0
    /\ pc' = CASE call = "lookingAt" -> "lookingAt"
               [] call = "matches" -> "matches"
               [] OTHER -> "find_ret"

\* MatchAt from breakFromLoop on: the match is recorded and control is back
\* in the caller (find's loop, lookingAt or matches)
ExitMatchAt(isMatch) ==
    /\ fMatch' = isMatch
    /\ IF isMatch
       THEN /\ fLastMatchEnd' = fMatchEnd
            /\ fMatchStart' = startIdx
            /\ fMatchEnd' = inputIdx
       ELSE UNCHANGED << fLastMatchEnd, fMatchStart, fMatchEnd >>
    /\ pc' = CASE call = "lookingAt" -> "lookingAt"
               [] call = "matches" -> "matches"
               [] OTHER -> "find_ret"

\* find() returns value: to the caller, or into replaceAll / replaceFirst
FindReturn(value, e) ==
    IF call \in {"replaceAll", "replaceFirst"}
    THEN /\ pc' = call
         /\ ret' = value
         /\ startPos' = 0 /\ status' = U_ZERO_ERROR
         /\ startIdx' = 0 /\ stackBase' = 0 /\ inputIdx' = 0 /\ patIdx' = 0
         /\ UNCHANGED << err, destString, replacement, caller >>
    ELSE Return(value, e)

\* the caller has taken the result of the call that returned; the matcher
\* waits for its next call
Resumed ==
    /\ pc = "returned"
    /\ pc' = "idle"
    /\ call' = "none"
    /\ ret' = "void"
    /\ err' = U_ZERO_ERROR
    /\ priorMatchEnd' = 0
    /\ failedAt' = {}
    /\ priorMatchStart' = IF call = "find" /\ ret = TRUE THEN fMatchStart ELSE -1
    /\ iterations' = 0
    /\ replacement' = << >>
    /\ UNCHANGED << matcher, locals, destString >>

\* the same, for a caller that holds no destination string
Resume ==
    /\ Resumed
    /\ UNCHANGED caller

(***************************************************************************)
(* The facade.                                                             *)
(***************************************************************************)
\* reset()
Reset ==
    /\ Enter("reset", 0)
    /\ reset
    /\ Return("void", U_ZERO_ERROR)
    /\ UNCHANGED << fPattern, sharedPattern, fInput, fInputLength, fCaptureEnds, fBackTrackStack >>

\* reset(input)
ResetInput ==
    \E input \in Subjects(fPattern) :
        /\ Enter("resetInput", 0)
        /\ fInput' = input
        /\ fInputLength' = Len(input)
        /\ reset
        /\ Return("void", U_ZERO_ERROR)
        /\ UNCHANGED << fPattern, sharedPattern, fCaptureEnds, fBackTrackStack >>

\* a faulty find(): the scan starts again at the start of the subject
Find_FromStart ==
    /\ Enter("find", fMatchEnd)
    /\ startPos' = 0
    /\ status' = U_ZERO_ERROR
    /\ pc' = "find"
    /\ ret' = "void"
    /\ err' = U_ZERO_ERROR
    /\ UNCHANGED << matcher, startIdx, stackBase, inputIdx, patIdx, destString, replacement, caller >>

\* find(), up to its loop
Find ==
    /\ Enter("find", fMatchEnd)
    /\ startPos' = fMatchEnd
    /\ status' = U_ZERO_ERROR
    /\ pc' = "find"
    /\ ret' = "void"
    /\ err' = U_ZERO_ERROR
    /\ UNCHANGED << matcher, startIdx, stackBase, inputIdx, patIdx, destString, replacement, caller >>

\* a faulty find(start, status): start == inputLength is let through
FindStartAt_EndAllowed(st, e) ==
    /\ Enter("findStart", IF U_FAILURE(e) \/ st < 0 \/ st > fInputLength THEN 0 ELSE st)
    /\ IF U_FAILURE(e)
       THEN /\ Return(FALSE, e)
            /\ UNCHANGED matcher
       ELSE IF st < 0 \/ st > fInputLength
       THEN /\ Return(FALSE, U_INDEX_OUTOFBOUNDS_ERROR)
            /\ UNCHANGED matcher
       ELSE /\ reset
            /\ startPos' = st
            /\ status' = e
            /\ pc' = "find"
            /\ ret' = "void"
            /\ err' = e
            /\ UNCHANGED << fPattern, sharedPattern, fInput, fInputLength, fCaptureEnds,
                            fBackTrackStack, startIdx, stackBase, inputIdx, patIdx,
                            destString, replacement, caller >>

\* find(start, status), up to its loop
FindStartAt(st, e) ==
    /\ Enter("findStart", IF U_FAILURE(e) \/ st < 0 \/ st >= fInputLength THEN 0 ELSE st)
    /\ IF U_FAILURE(e)
       THEN /\ Return(FALSE, e)
            /\ UNCHANGED matcher
       ELSE IF st < 0 \/ st >= fInputLength
       THEN /\ Return(FALSE, U_INDEX_OUTOFBOUNDS_ERROR)
            /\ UNCHANGED matcher
       ELSE /\ reset
            /\ startPos' = st
            /\ status' = e
            /\ pc' = "find"
            /\ ret' = "void"
            /\ err' = e
            /\ UNCHANGED << fPattern, sharedPattern, fInput, fInputLength, fCaptureEnds,
                            fBackTrackStack, startIdx, stackBase, inputIdx, patIdx,
                            destString, replacement, caller >>

\* the values find(start, status) is called with
StartArgs == -1..(MaxLen + 1)

FindStart ==
    \E st \in StartArgs, e \in {U_ZERO_ERROR, U_ILLEGAL_ARGUMENT_ERROR} :
        FindStartAt(st, e)

\* a faulty head of find's loop: the scan takes in startPos == inputLength
FindLoop_ThroughEnd ==
    /\ pc = "find"
    /\ IF startPos <= fInputLength
       THEN /\ EnterMatchAt(startPos)
            /\ UNCHANGED << fPattern, sharedPattern, fInput, fInputLength, fMatchStart, fMatchEnd,
                            fLastMatchEnd, fMatch, fCaptureEnds, fBackTrackStack,
                            call, startPos, status, destString, replacement, caller, ret,
                            err, priorMatchEnd, failedAt, history >>
       ELSE /\ FindReturn(FALSE, IF call = "findStart" THEN status ELSE err)
            /\ UNCHANGED << matcher, call, priorMatchEnd, failedAt, history >>

\* the head of find's loop: MatchAt(startPos, status), or FALSE at the end
FindLoop ==
    /\ pc = "find"
    /\ IF startPos < fInputLength
       THEN /\ EnterMatchAt(startPos)
            /\ UNCHANGED << fPattern, sharedPattern, fInput, fInputLength, fMatchStart, fMatchEnd,
                            fLastMatchEnd, fMatch, fCaptureEnds, fBackTrackStack,
                            call, startPos, status, destString, replacement, caller, ret,
                            err, priorMatchEnd, failedAt, history >>
       ELSE /\ FindReturn(FALSE, IF call = "findStart" THEN status ELSE err)
            /\ UNCHANGED << matcher, call, priorMatchEnd, failedAt, history >>

\* the body of find's loop after MatchAt has returned
FindCheck ==
    /\ pc = "find_ret"
    /\ IF U_FAILURE(status)
       THEN /\ FindReturn(FALSE, IF call = "findStart" THEN status ELSE err)
            /\ UNCHANGED << matcher, call, priorMatchEnd, failedAt, history >>
       ELSE IF fMatch
       THEN /\ FindReturn(TRUE, IF call = "findStart" THEN status ELSE err)
            /\ UNCHANGED << matcher, call, priorMatchEnd, failedAt, history >>
       ELSE /\ startPos' = moveIndex32(fInput, startPos, 1)
            /\ failedAt' = failedAt \cup {startPos}
            /\ pc' = "find"
            /\ UNCHANGED << matcher, call, status, startIdx, stackBase, inputIdx, patIdx,
                            destString, replacement, caller, ret, err, priorMatchEnd,
                            history >>

\* a faulty lookingAt that goes into MatchAt without reset()
LookingAt_NoReset ==
    \E e \in {U_ZERO_ERROR, U_ILLEGAL_ARGUMENT_ERROR} :
        /\ fInput # NULL
        /\ Enter("lookingAt", 0)
        /\ IF U_FAILURE(e)
           THEN /\ Return(FALSE, e)
                /\ UNCHANGED matcher
           ELSE /\ UNCHANGED << fMatchStart, fMatchEnd, fLastMatchEnd, fMatch, fCaptureStarts >>
                /\ EnterMatchAt(0)
                /\ status' = e
                /\ ret' = "void"
                /\ err' = e
                /\ UNCHANGED << fPattern, sharedPattern, fInput, fInputLength, fCaptureEnds,
                                fBackTrackStack, startPos, destString, replacement, caller >>

\* lookingAt(status), up to MatchAt's main loop
LookingAt ==
    \E e \in {U_ZERO_ERROR, U_ILLEGAL_ARGUMENT_ERROR} :
        /\ fInput # NULL
        /\ Enter("lookingAt", 0)
        /\ IF U_FAILURE(e)
           THEN /\ Return(FALSE, e)
                /\ UNCHANGED matcher
           ELSE /\ reset
                /\ EnterMatchAt(0)
                /\ status' = e
                /\ ret' = "void"
                /\ err' = e
                /\ UNCHANGED << fPattern, sharedPattern, fInput, fInputLength, fCaptureEnds,
                                fBackTrackStack, startPos, destString, replacement, caller >>

\* lookingAt(status) after MatchAt has returned
LookingAtReturn ==
    /\ pc = "lookingAt"
    /\ Return(fMatch, status)
    /\ UNCHANGED << matcher, call, priorMatchEnd, failedAt, history >>

\* matches(status), up to MatchAt's main loop
Matches ==
    \E e \in {U_ZERO_ERROR, U_ILLEGAL_ARGUMENT_ERROR} :
        /\ fInput # NULL
        /\ Enter("matches", 0)
        /\ IF U_FAILURE(e)
           THEN /\ Return(FALSE, e)
                /\ UNCHANGED matcher
           ELSE /\ reset
                /\ EnterMatchAt(0)
                /\ status' = e
                /\ ret' = "void"
                /\ err' = e
                /\ UNCHANGED << fPattern, sharedPattern, fInput, fInputLength, fCaptureEnds,
                                fBackTrackStack, startPos, destString, replacement, caller >>

\* a faulty matches(): a match of a prefix of the subject is reported
MatchesReturn_Prefix ==
    /\ pc = "matches"
    /\ Return(fMatch, status)
    /\ UNCHANGED << matcher, call, priorMatchEnd, failedAt, history >>

\* matches(status) after MatchAt has returned
MatchesReturn ==
    /\ pc = "matches"
    /\ Return(fMatch /\ fMatchEnd = fInputLength, status)
    /\ UNCHANGED << matcher, call, priorMatchEnd, failedAt, history >>

\* start(group, err)
Start ==
    \E g \in -1..(fNumCaptureGroups + 1), e \in {U_ZERO_ERROR, U_ILLEGAL_ARGUMENT_ERROR} :
        /\ Enter("start", 0)
        /\ Return(start(g, e).val, start(g, e).status)
        /\ UNCHANGED matcher

\* end(group, err)
End ==
    \E g \in -1..(fNumCaptureGroups + 1), e \in {U_ZERO_ERROR, U_ILLEGAL_ARGUMENT_ERROR} :
        /\ Enter("end", 0)
        /\ Return(end(g, e).val, end(g, e).status)
        /\ UNCHANGED matcher

\* group(groupNum, status)
Group ==
    \E g \in -1..(fNumCaptureGroups + 1), e \in {U_ZERO_ERROR, U_ILLEGAL_ARGUMENT_ERROR} :
        /\ Enter("group", 0)
        /\ Return(group(g, e).val, group(g, e).status)
        /\ UNCHANGED matcher

\* replaceAll(replacement, status), up to the loop of its first find()
ReplaceAll ==
    \E repl \in Replacements, e \in {U_ZERO_ERROR, U_ILLEGAL_ARGUMENT_ERROR} :
        /\ fInput # NULL
        /\ Enter("replaceAll", 0)
        /\ IF U_FAILURE(e)
           THEN /\ Return(fInput, e)
                /\ UNCHANGED matcher
           ELSE /\ reset
                /\ destString' = << >>
                /\ replacement' = repl
                /\ UNCHANGED caller
                /\ startPos' = 0
                /\ status' = U_ZERO_ERROR
                /\ pc' = "find"
                /\ ret' = "void"
                /\ err' = e
                /\ UNCHANGED << fPattern, sharedPattern, fInput, fInputLength, fCaptureEnds,
                                fBackTrackStack, startIdx, stackBase, inputIdx, patIdx >>

\* a faulty replaceAll: the loop is left without the call of appendTail
ReplaceAllLoop_NoTail ==
    /\ pc = "replaceAll"
    /\ LET r == appendReplacement(destString, replacement, err)
       IN  IF ret = TRUE /\ ~U_FAILURE(r.status)
           THEN /\ destString' = r.dest
                /\ startPos' = fMatchEnd
                /\ status' = U_ZERO_ERROR
                /\ pc' = "find"
                /\ priorMatchEnd' = fMatchEnd
                /\ failedAt' = {}
                /\ priorMatchStart' = fMatchStart
                /\ iterations' = iterations + 1
                /\ UNCHANGED << matcher, call, startIdx, stackBase, inputIdx, patIdx,
                                replacement, caller, ret, err >>
           ELSE IF ret = TRUE
           THEN /\ Return(r.dest, r.status)
                /\ UNCHANGED << matcher, call, priorMatchEnd, failedAt, history >>
           ELSE /\ Return(destString, err)
                /\ UNCHANGED << matcher, call, priorMatchEnd, failedAt, history >>

\* replaceAll's loop after find() has returned ret
ReplaceAllLoop ==
    /\ pc = "replaceAll"
    /\ LET r == appendReplacement(destString, replacement, err)
       IN  IF ret = TRUE /\ ~U_FAILURE(r.status)
           THEN /\ destString' = r.dest
                /\ startPos' = fMatchEnd
                /\ status' = U_ZERO_ERROR
                /\ pc' = "find"
                /\ priorMatchEnd' = fMatchEnd
                /\ failedAt' = {}
                /\ priorMatchStart' = fMatchStart
                /\ iterations' = iterations + 1
                /\ UNCHANGED << matcher, call, startIdx, stackBase, inputIdx, patIdx,
                                replacement, caller, ret, err >>
           ELSE IF ret = TRUE
           THEN /\ Return(appendTail(r.dest), r.status)
                /\ UNCHANGED << matcher, call, priorMatchEnd, failedAt, history >>
           ELSE /\ Return(appendTail(destString), err)
                /\ UNCHANGED << matcher, call, priorMatchEnd, failedAt, history >>

\* a faulty replaceFirst: reset() is not called before find()
ReplaceFirst_NoReset ==
    \E repl \in Replacements, e \in {U_ZERO_ERROR, U_ILLEGAL_ARGUMENT_ERROR} :
        /\ fInput # NULL
        /\ Enter("replaceFirst", 0)
        /\ IF U_FAILURE(e)
           THEN /\ Return(fInput, e)
                /\ UNCHANGED matcher
           ELSE /\ destString' = << >>
                /\ replacement' = repl
                /\ startPos' = fMatchEnd
                /\ status' = U_ZERO_ERROR
                /\ pc' = "find"
                /\ ret' = "void"
                /\ err' = e
                /\ UNCHANGED << matcher, caller, startIdx, stackBase, inputIdx, patIdx >>

\* replaceFirst(replacement, status), up to the loop of its find()
ReplaceFirst ==
    \E repl \in Replacements, e \in {U_ZERO_ERROR, U_ILLEGAL_ARGUMENT_ERROR} :
        /\ fInput # NULL
        /\ Enter("replaceFirst", 0)
        /\ IF U_FAILURE(e)
           THEN /\ Return(fInput, e)
                /\ UNCHANGED matcher
           ELSE /\ reset
                /\ destString' = << >>
                /\ replacement' = repl
                /\ UNCHANGED caller
                /\ startPos' = 0
                /\ status' = U_ZERO_ERROR
                /\ pc' = "find"
                /\ ret' = "void"
                /\ err' = e
                /\ UNCHANGED << fPattern, sharedPattern, fInput, fInputLength, fCaptureEnds,
                                fBackTrackStack, startIdx, stackBase, inputIdx, patIdx >>

\* replaceFirst after find() has returned ret
ReplaceFirstReturn ==
    /\ pc = "replaceFirst"
    /\ LET r == appendReplacement(destString, replacement, err)
       IN  IF ret = FALSE
           THEN Return(fInput, err)
           ELSE Return(appendTail(r.dest), r.status)
    /\ UNCHANGED << matcher, call, priorMatchEnd, failedAt, history >>


(***************************************************************************)
(* The interpreter: one action per opcode of MatchAt's main loop.          *)
(***************************************************************************)
\* what no opcode of the main loop touches
OutsideLoop ==
    << fPattern, sharedPattern, fInput, fInputLength, fMatchStart, fMatchEnd, fLastMatchEnd,
       fMatch, call, startPos, status, startIdx, stackBase, destString, replacement, ret,
       err, priorMatchEnd, failedAt, history, caller >>

\* the main loop is at a word of this opcode
AtOp(type) == pc = "MatchAt" /\ URX_TYPE(pat(patIdx)) = type
opValue == URX_VAL(pat(patIdx))

\* the indices of fInputUC that the opcode at patIdx reads: U16_NEXT reads
\* the unit at inputIdx and, after a lead surrogate, the one that follows if
\* it lies inside the input; u_strncmp reads up to stringLen units; the other
\* opcodes go through char32At, which checks its index against the string
fInputUC_Reads ==
    IF \E t \in {"URX_ONECHAR", "URX_SETREF", "URX_STATIC_SETREF", "URX_DOTANY"} : AtOp(t)
    THEN IF inputIdx < fInputLength
         THEN {inputIdx} \cup
              (IF U16_IS_LEAD(charAt(fInput, inputIdx)) /\ inputIdx + 1 # fInputLength
               THEN {inputIdx + 1} ELSE {})
         ELSE {}
    ELSE IF AtOp("URX_STRING")
    THEN IF inputIdx + URX_VAL(pat(patIdx + 1)) <= Len(fInput)
         THEN inputIdx..(inputIdx + URX_VAL(pat(patIdx + 1)) - 1)
         ELSE {}
    ELSE {}

\* the opcode is done: the loop goes on at word nextPat with input index idx
Continue(idx, nextPat) ==
    /\ inputIdx' = idx
    /\ patIdx' = nextPat
    /\ UNCHANGED << fBackTrackStack, fCaptureStarts, fCaptureEnds, pc >>

\* a faulty popBlock: the block handed out is the oldest on the stack
popBlock_Oldest(size) ==
    SubSeq(fBackTrackStack, 1, size)

\* UVector32::popBlock(size): the cells of the block, bottom first
popBlock(size) ==
    SubSeq(fBackTrackStack, Len(fBackTrackStack) - size + 1, Len(fBackTrackStack))

\* a faulty backTrack: the cells of the frame are read top first
backTrack_TopFirst ==
    LET sp == popBlock(fCaptureStateSize)
        n == fNumCaptureGroups
    IN  /\ fBackTrackStack' =
               SubSeq(fBackTrackStack, 1, Len(fBackTrackStack) - fCaptureStateSize)
        /\ inputIdx' = sp[1]
        /\ patIdx' = sp[2]
        /\ fCaptureStarts' =
               [i \in 0..n |-> IF i >= 1 THEN sp[2 * i + 1] ELSE fCaptureStarts[i]]
        /\ fCaptureEnds' =
               [i \in 0..n |-> IF i >= 1 THEN sp[2 * i + 2] ELSE fCaptureEnds[i]]
        /\ UNCHANGED pc

\* backTrack(inputIdx, patIdx) on a stack that holds no frame: backTrack does
\* not look at the size of the stack, and what it reads through the pointer
\* popBlock hands out is not a frame.  Any pattern index, input index and
\* captures may come out of it.
backTrackBelowBottom ==
    LET n == fNumCaptureGroups
    IN  \E p \in 0..(Len(sharedPattern.fCompiledPat) - 1), idx \in 0..fInputLength,
           cs \in [1..n -> -1..fInputLength], ce \in [1..n -> -1..fInputLength] :
            /\ fBackTrackStack' = << >>
            /\ fCaptureStarts' = [i \in 0..n |-> IF i >= 1 THEN cs[i] ELSE fCaptureStarts[i]]
            /\ fCaptureEnds' = [i \in 0..n |-> IF i >= 1 THEN ce[i] ELSE fCaptureEnds[i]]
            /\ patIdx' = p
            /\ inputIdx' = idx
            /\ UNCHANGED pc

\* backTrack(inputIdx, patIdx)
backTrack ==
    IF Len(fBackTrackStack) < fCaptureStateSize THEN backTrackBelowBottom
    ELSE
    LET sp == popBlock(fCaptureStateSize)
        n == fNumCaptureGroups
    IN  /\ fBackTrackStack' =
               SubSeq(fBackTrackStack, 1, Len(fBackTrackStack) - fCaptureStateSize)
        /\ fCaptureStarts' =
               [i \in 0..n |-> IF i >= 1 THEN sp[2 * (n - i) + 1] ELSE fCaptureStarts[i]]
        /\ fCaptureEnds' =
               [i \in 0..n |-> IF i >= 1 THEN sp[2 * (n - i) + 2] ELSE fCaptureEnds[i]]
        /\ patIdx' = sp[2 * n + 1]
        /\ inputIdx' = sp[2 * n + 2]
        /\ UNCHANGED pc

\* the cells URX_STATE_SAVE writes, bottom first
RECURSIVE SavedCaptures(_)
SavedCaptures(i) ==
    IF i <= 0 THEN << >>
    ELSE << fCaptureStarts[i], fCaptureEnds[i] >> \o SavedCaptures(i - 1)

IsLineTerminator(c) == c = 10 \/ c = 13 \/ c = 12 \/ c = 133 \/ c = 8232 \/ c = 8233
IsCombining(c) == u_charType(c) \in {"U_NON_SPACING_MARK", "U_ENCLOSING_MARK"}

\* fPattern->fStaticSets[v]->contains(c)
StaticSetContains(v, c) == v = URX_ISWORD_SET /\ IsWordChar(c)

\* a faulty scan back: the char just before prevPos decides, combining or not
PrevCIsWord_Adjacent(prevPos) ==
    IF prevPos = 0 THEN FALSE
    ELSE IsWordChar(char32At(fInput, moveIndex32(fInput, prevPos, -1)))

\* isWordBoundary's scan back from prevPos to a char that is not combining
RECURSIVE PrevCIsWord(_)
PrevCIsWord(prevPos) ==
    IF prevPos = 0 THEN FALSE
    ELSE LET p == moveIndex32(fInput, prevPos, -1)
             prevChar == char32At(fInput, p)
         IN  IF ~IsCombining(prevChar) THEN IsWordChar(prevChar) ELSE PrevCIsWord(p)

\* isWordBoundary(pos)
isWordBoundary(pos) ==
    IF pos >= fInputLength THEN FALSE
    ELSE LET c == char32At(fInput, pos)
         IN  IF IsCombining(c) THEN FALSE
             ELSE IsWordChar(c) # PrevCIsWord(pos)

URX_NOP ==
    /\ AtOp("URX_NOP")
    /\ Continue(inputIdx, patIdx + 1)
    /\ UNCHANGED OutsideLoop

URX_BACKTRACK ==
    /\ AtOp("URX_BACKTRACK")
    /\ backTrack
    /\ UNCHANGED OutsideLoop

URX_ONECHAR ==
    /\ AtOp("URX_ONECHAR")
    /\ IF inputIdx < fInputLength /\ U16_NEXT(fInput, inputIdx, fInputLength)[1] = opValue
       THEN Continue(U16_NEXT(fInput, inputIdx, fInputLength)[2], patIdx + 1)
       ELSE backTrack
    /\ UNCHANGED OutsideLoop

\* a faulty URX_STRING that compares what input there is and advances by the
\* length of the string all the same
URX_STRING_NoBound ==
    /\ AtOp("URX_STRING")
    /\ LET stringStartIdx == opValue
           stringLen == URX_VAL(pat(patIdx + 1))
           stringEndIndex == inputIdx + stringLen
           litText == sharedPattern.fLiteralText
           avail == IF stringEndIndex <= Len(fInput) THEN stringLen
                    ELSE Len(fInput) - inputIdx
       IN  IF SubSeq(fInput, inputIdx + 1, inputIdx + avail)
                  = SubSeq(litText, stringStartIdx + 1, stringStartIdx + avail)
           THEN Continue(stringEndIndex, patIdx + 2)
           ELSE backTrack
    /\ UNCHANGED OutsideLoop

\* URX_STRING and the URX_STRING_LEN word after it
URX_STRING ==
    /\ AtOp("URX_STRING")
    /\ LET stringStartIdx == opValue
           stringLen == URX_VAL(pat(patIdx + 1))
           stringEndIndex == inputIdx + stringLen
           litText == sharedPattern.fLiteralText
       IN  IF /\ stringEndIndex <= Len(fInput)
              /\ SubSeq(fInput, inputIdx + 1, stringEndIndex)
                     = SubSeq(litText, stringStartIdx + 1, stringStartIdx + stringLen)
           THEN Continue(stringEndIndex, patIdx + 2)
           ELSE backTrack
    /\ UNCHANGED OutsideLoop

URX_STATE_SAVE ==
    /\ AtOp("URX_STATE_SAVE")
    /\ Len(fBackTrackStack) + fCaptureStateSize <= MaxFrames * fCaptureStateSize
    /\ fBackTrackStack' =
           fBackTrackStack \o SavedCaptures(fNumCaptureGroups) \o << opValue, inputIdx >>
    /\ patIdx' = patIdx + 1
    /\ UNCHANGED << inputIdx, fCaptureStarts, fCaptureEnds, pc >>
    /\ UNCHANGED OutsideLoop

\* a faulty URX_END: under matches() a path that ends before the end of the
\* input is given up and the engine backtracks to the next one
URX_END_WholeInput ==
    /\ AtOp("URX_END")
    /\ IF call = "matches" /\ inputIdx < fInputLength
       THEN backTrack /\ UNCHANGED OutsideLoop
       ELSE /\ ExitMatchAt(TRUE)
            /\ patIdx' = patIdx + 1
            /\ UNCHANGED << fPattern, sharedPattern, fInput, fInputLength, fCaptureStarts,
                            fCaptureEnds, fBackTrackStack, call, startPos, status, startIdx,
                            stackBase, inputIdx, destString, replacement, caller, ret, err,
                            priorMatchEnd, failedAt, history >>

URX_END ==
    /\ AtOp("URX_END")
    /\ ExitMatchAt(TRUE)
    /\ patIdx' = patIdx + 1
    /\ UNCHANGED << fPattern, sharedPattern, fInput, fInputLength, fCaptureStarts, fCaptureEnds,
                    fBackTrackStack, call, startPos, status, startIdx, stackBase, inputIdx,
                    destString, replacement, caller, ret, err, priorMatchEnd, failedAt, history >>

URX_START_CAPTURE ==
    /\ AtOp("URX_START_CAPTURE")
    /\ fCaptureStarts' = [fCaptureStarts EXCEPT ![opValue] = inputIdx]
    /\ patIdx' = patIdx + 1
    /\ UNCHANGED << inputIdx, fBackTrackStack, fCaptureEnds, pc >>
    /\ UNCHANGED OutsideLoop

URX_END_CAPTURE ==
    /\ AtOp("URX_END_CAPTURE")
    /\ fCaptureEnds' = [fCaptureEnds EXCEPT ![opValue] = inputIdx]
    /\ patIdx' = patIdx + 1
    /\ UNCHANGED << inputIdx, fBackTrackStack, fCaptureStarts, pc >>
    /\ UNCHANGED OutsideLoop

\* a faulty URX_DOLLAR: U+0085 at the end of the input is not taken for a
\* line terminator
URX_DOLLAR_NoNextLine ==
    /\ AtOp("URX_DOLLAR")
    /\ LET inputLen == Len(fInput)
       IN  IF inputIdx < inputLen - 2 THEN backTrack
           ELSE IF inputIdx >= inputLen THEN Continue(inputIdx, patIdx + 1)
           ELSE IF /\ inputIdx = inputLen - 1
                   /\ IsLineTerminator(char32At(fInput, inputIdx))
                   /\ char32At(fInput, inputIdx) # 133
           THEN Continue(inputIdx, patIdx + 1)
           ELSE IF /\ inputIdx = inputLen - 2
                   /\ char32At(fInput, inputIdx) = 13
                   /\ char32At(fInput, inputIdx + 1) = 10
           THEN Continue(inputIdx, patIdx + 1)
           ELSE backTrack
    /\ UNCHANGED OutsideLoop

URX_DOLLAR ==
    /\ AtOp("URX_DOLLAR")
    /\ LET inputLen == Len(fInput)
       IN  IF inputIdx < inputLen - 2 THEN backTrack
           ELSE IF inputIdx >= inputLen THEN Continue(inputIdx, patIdx + 1)
           ELSE IF inputIdx = inputLen - 1 /\ IsLineTerminator(char32At(fInput, inputIdx))
           THEN Continue(inputIdx, patIdx + 1)
           ELSE IF /\ inputIdx = inputLen - 2
                   /\ char32At(fInput, inputIdx) = 13
                   /\ char32At(fInput, inputIdx + 1) = 10
           THEN Continue(inputIdx, patIdx + 1)
           ELSE backTrack
    /\ UNCHANGED OutsideLoop

URX_CARET ==
    /\ AtOp("URX_CARET")
    /\ IF inputIdx # 0 THEN backTrack ELSE Continue(inputIdx, patIdx + 1)
    /\ UNCHANGED OutsideLoop

URX_BACKSLASH_A ==
    /\ AtOp("URX_BACKSLASH_A")
    /\ IF inputIdx # 0 THEN backTrack ELSE Continue(inputIdx, patIdx + 1)
    /\ UNCHANGED OutsideLoop

URX_BACKSLASH_B ==
    /\ AtOp("URX_BACKSLASH_B")
    /\ LET success == isWordBoundary(inputIdx) # (opValue # 0)
       IN  IF ~success THEN backTrack ELSE Continue(inputIdx, patIdx + 1)
    /\ UNCHANGED OutsideLoop

\* a faulty URX_BACKSLASH_D that goes on by one code unit
URX_BACKSLASH_D_OneUnit ==
    /\ AtOp("URX_BACKSLASH_D")
    /\ IF inputIdx >= fInputLength THEN backTrack
       ELSE LET c == char32At(fInput, inputIdx)
                success == (u_charType(c) = "U_DECIMAL_DIGIT_NUMBER") # (opValue # 0)
            IN  IF success
                THEN Continue(inputIdx + 1, patIdx + 1)
                ELSE backTrack
    /\ UNCHANGED OutsideLoop

URX_BACKSLASH_D ==
    /\ AtOp("URX_BACKSLASH_D")
    /\ IF inputIdx >= fInputLength THEN backTrack
       ELSE LET c == char32At(fInput, inputIdx)
                success == (u_charType(c) = "U_DECIMAL_DIGIT_NUMBER") # (opValue # 0)
            IN  IF success
                THEN Continue(moveIndex32(fInput, inputIdx, 1), patIdx + 1)
                ELSE backTrack
    /\ UNCHANGED OutsideLoop

\* a faulty URX_BACKSLASH_G: without a match to go from, any position will do
URX_BACKSLASH_G_FreeAfterFailure ==
    /\ AtOp("URX_BACKSLASH_G")
    /\ IF fMatch /\ inputIdx # fMatchEnd
       THEN backTrack
       ELSE Continue(inputIdx, patIdx + 1)
    /\ UNCHANGED OutsideLoop

URX_BACKSLASH_G ==
    /\ AtOp("URX_BACKSLASH_G")
    /\ IF ~((fMatch /\ inputIdx = fMatchEnd) \/ (fMatch = FALSE /\ inputIdx = 0))
       THEN backTrack
       ELSE Continue(inputIdx, patIdx + 1)
    /\ UNCHANGED OutsideLoop

\* a faulty loop that takes one combining mark at most
SkipCombining_One(idx) ==
    IF ~IsCombining(char32At(fInput, idx)) THEN idx
    ELSE moveIndex32(fInput, idx, 1)

\* URX_BACKSLASH_X's loop over the combining marks from idx on
RECURSIVE SkipCombining(_)
SkipCombining(idx) ==
    IF ~IsCombining(char32At(fInput, idx)) THEN idx
    ELSE LET next == moveIndex32(fInput, idx, 1)
         IN  IF next >= fInputLength THEN next ELSE SkipCombining(next)

URX_BACKSLASH_X ==
    /\ AtOp("URX_BACKSLASH_X")
    /\ IF inputIdx >= fInputLength THEN backTrack
       ELSE LET c == char32At(fInput, inputIdx)
                idx1 == moveIndex32(fInput, inputIdx, 1)
            IN  IF c = 13 /\ char32At(fInput, idx1) = 10
                THEN Continue(moveIndex32(fInput, idx1, 1), patIdx + 1)
                ELSE IF u_charType(c) # "U_CONTROL_CHAR"
                THEN Continue(SkipCombining(idx1), patIdx + 1)
                ELSE Continue(idx1, patIdx + 1)
    /\ UNCHANGED OutsideLoop

\* a faulty URX_BACKSLASH_Z: one code unit before the end is taken for the end
URX_BACKSLASH_Z_BeforeLast ==
    /\ AtOp("URX_BACKSLASH_Z")
    /\ IF inputIdx < Len(fInput) - 1 THEN backTrack ELSE Continue(inputIdx, patIdx + 1)
    /\ UNCHANGED OutsideLoop

URX_BACKSLASH_Z ==
    /\ AtOp("URX_BACKSLASH_Z")
    /\ IF inputIdx < Len(fInput) THEN backTrack ELSE Continue(inputIdx, patIdx + 1)
    /\ UNCHANGED OutsideLoop

\* a faulty URX_STATIC_SETREF that strips URX_NEG_SET from the operand in the
\* compiled pattern instead of in its local copy
URX_STATIC_SETREF_WritesBack ==
    /\ AtOp("URX_STATIC_SETREF")
    /\ LET negated == (opValue \div URX_NEG_SET) % 2 = 1
           setIdx == IF negated THEN opValue - URX_NEG_SET ELSE opValue
           hasInput == inputIdx < fInputLength
           next == U16_NEXT(fInput, inputIdx, fInputLength)
           success == IF hasInput /\ StaticSetContains(setIdx, next[1])
                      THEN ~negated ELSE negated
       IN  /\ sharedPattern' =
                  [sharedPattern EXCEPT
                      !.fCompiledPat[patIdx + 1] = URX_BUILD("URX_STATIC_SETREF", setIdx)]
           /\ IF ~success THEN backTrack
              ELSE Continue(IF hasInput THEN next[2] ELSE inputIdx, patIdx + 1)
    /\ UNCHANGED << fPattern, fInput, fInputLength, fMatchStart, fMatchEnd,
                    fLastMatchEnd, fMatch, call, startPos, status, startIdx, stackBase,
                    destString, replacement, ret, err, priorMatchEnd, failedAt,
                    history, caller >>

URX_STATIC_SETREF ==
    /\ AtOp("URX_STATIC_SETREF")
    /\ LET negated == (opValue \div URX_NEG_SET) % 2 = 1
           setIdx == IF negated THEN opValue - URX_NEG_SET ELSE opValue
           hasInput == inputIdx < fInputLength
           next == U16_NEXT(fInput, inputIdx, fInputLength)
           success == IF hasInput /\ StaticSetContains(setIdx, next[1])
                      THEN ~negated ELSE negated
       IN  IF ~success THEN backTrack
           ELSE Continue(IF hasInput THEN next[2] ELSE inputIdx, patIdx + 1)
    /\ UNCHANGED OutsideLoop

URX_SETREF ==
    /\ AtOp("URX_SETREF")
    /\ IF /\ inputIdx < fInputLength
          /\ U16_NEXT(fInput, inputIdx, fInputLength)[1]
                 \in sharedPattern.fSets[opValue + 1]
       THEN Continue(U16_NEXT(fInput, inputIdx, fInputLength)[2], patIdx + 1)
       ELSE backTrack
    /\ UNCHANGED OutsideLoop

\* a faulty end-of-line test whose quick bypass lets U+2029 through
EndOfLine_NarrowBypass(c) == (c % 128) <= 40 /\ IsLineTerminator(c)

\* URX_DOTANY's end-of-line test: the quick bypass on the low seven bits,
\* then the six comparisons
EndOfLine(c) ==
    (c % 128) <= 41 /\ IsLineTerminator(c)

URX_DOTANY ==
    /\ AtOp("URX_DOTANY")
    /\ IF inputIdx >= fInputLength THEN backTrack
       ELSE LET next == U16_NEXT(fInput, inputIdx, fInputLength)
                c == next[1]
            IN  IF EndOfLine(c)
                THEN backTrack
                ELSE Continue(next[2], patIdx + 1)
    /\ UNCHANGED OutsideLoop

\* a faulty URX_DOTANY_ALL that takes a LINE FEED along after any terminator
URX_DOTANY_ALL_AnyTerminator ==
    /\ AtOp("URX_DOTANY_ALL")
    /\ IF inputIdx >= fInputLength THEN backTrack
       ELSE LET c == char32At(fInput, inputIdx)
                idx1 == moveIndex32(fInput, inputIdx, 1)
            IN  IF IsLineTerminator(c) /\ char32At(fInput, idx1) = 10
                THEN Continue(moveIndex32(fInput, idx1, 1), patIdx + 1)
                ELSE Continue(idx1, patIdx + 1)
    /\ UNCHANGED OutsideLoop

URX_DOTANY_ALL ==
    /\ AtOp("URX_DOTANY_ALL")
    /\ IF inputIdx >= fInputLength THEN backTrack
       ELSE LET c == char32At(fInput, inputIdx)
                idx1 == moveIndex32(fInput, inputIdx, 1)
            IN  IF IsLineTerminator(c) /\ c = 13 /\ char32At(fInput, idx1) = 10
                THEN Continue(moveIndex32(fInput, idx1, 1), patIdx + 1)
                ELSE Continue(idx1, patIdx + 1)
    /\ UNCHANGED OutsideLoop

URX_JMP ==
    /\ AtOp("URX_JMP")
    /\ Continue(inputIdx, opValue)
    /\ UNCHANGED OutsideLoop

URX_FAIL ==
    /\ AtOp("URX_FAIL")
    /\ ExitMatchAt(FALSE)
    /\ patIdx' = patIdx + 1
    /\ UNCHANGED << fPattern, sharedPattern, fInput, fInputLength, fCaptureStarts, fCaptureEnds,
                    fBackTrackStack, call, startPos, status, startIdx, stackBase, inputIdx,
                    destString, replacement, caller, ret, err, priorMatchEnd, failedAt, history >>

(***************************************************************************)
(* The specification.                                                      *)
(***************************************************************************)
\* one trip round MatchAt's main loop
MatchAtStep ==
    \/ URX_NOP \/ URX_BACKTRACK \/ URX_ONECHAR \/ URX_STRING \/ URX_STATE_SAVE \/ URX_END
    \/ URX_START_CAPTURE \/ URX_END_CAPTURE \/ URX_DOLLAR \/ URX_CARET
    \/ URX_BACKSLASH_A \/ URX_BACKSLASH_B \/ URX_BACKSLASH_D \/ URX_BACKSLASH_G \/ URX_BACKSLASH_X
    \/ URX_BACKSLASH_Z \/ URX_STATIC_SETREF \/ URX_SETREF \/ URX_DOTANY \/ URX_DOTANY_ALL
    \/ URX_JMP \/ URX_FAIL

Next ==
    \/ Resume
    \/ Reset \/ ResetInput
    \/ Find \/ FindStart \/ FindLoop \/ FindCheck
    \/ LookingAt \/ LookingAtReturn
    \/ Matches \/ MatchesReturn
    \/ Start \/ End \/ Group
    \/ ReplaceAll \/ ReplaceAllLoop
    \/ ReplaceFirst \/ ReplaceFirstReturn
    \/ MatchAtStep

Spec == Init /\ [][Next]_vars

(***************************************************************************)
(* A caller that uses appendReplacement and appendTail.  It either makes   *)
(* single calls with a destination of its choice, or runs the append loop  *)
(*     reset; while (find()) appendReplacement(dest, repl, status);        *)
(*     appendTail(dest)                                                    *)
(* and afterwards calls replaceAll(repl) on a matcher for the same pattern *)
(* and subject.                                                            *)
(***************************************************************************)
NoProtocol == [phase |-> "none", input |-> NULL, repl |-> << >>, lastEnd |-> 0]
\* the caller is not in an append loop: it makes single calls
CallerFree == protocol.phase = "none"
\* the caller has finished an append loop and goes on to replaceAll
LoopDone == protocol.phase = "done"
\* the matcher is as reset() leaves it
IsReset ==
    /\ fMatch = FALSE
    /\ fMatchStart = 0 /\ fMatchEnd = 0 /\ fLastMatchEnd = 0
    /\ \A g \in 0..fNumCaptureGroups : fCaptureStarts[g] = -1

\* the caller starts an append loop with an empty dest on a reset matcher
BeginAppendLoop ==
    \E repl \in Replacements :
        /\ pc = "idle" /\ CallerFree
        /\ fInput # NULL /\ IsReset
        /\ protocol' = [phase |-> "find", input |-> fInput, repl |-> repl,
                         lastEnd |-> 0]
        /\ userDest' = << >>
        /\ userStatus' = U_ZERO_ERROR
        /\ UNCHANGED << matcher, locals, pc, call, destString, replacement, ret, err,
                        priorMatchEnd, failedAt, history, otherMatcher >>

\* appendReplacement(dest, replacement, status): inside the append loop with
\* the caller's dest, replacement and status, outside it with any
AppendReplacement ==
    \E d \in (IF protocol.phase = "append" THEN {userDest} ELSE Dests),
       repl \in (IF protocol.phase = "append" THEN {protocol.repl} ELSE ReplacementTexts),
       e \in (IF protocol.phase = "append" THEN {userStatus}
              ELSE {U_ZERO_ERROR, U_ILLEGAL_ARGUMENT_ERROR}) :
        /\ protocol.phase \in {"none", "append"}
        /\ Enter("appendReplacement", 0)
        /\ pc' = "returned"
        /\ ret' = "void"
        /\ err' = appendReplacement(d, repl, e).status
        /\ userDest' = appendReplacement(d, repl, e).dest
        /\ userStatus' = appendReplacement(d, repl, e).status
        /\ replacement' = repl
        /\ UNCHANGED << protocol, otherMatcher >>
        /\ UNCHANGED << matcher, locals, destString >>

\* appendTail(dest): inside the append loop with the caller's dest, outside
\* it with any
AppendTail ==
    \E d \in (IF protocol.phase = "tail" THEN {userDest} ELSE Dests) :
        /\ protocol.phase \in {"none", "tail"}
        /\ Enter("appendTail", 0)
        /\ pc' = "returned"
        /\ ret' = appendTail(d)
        /\ userDest' = appendTail(d)
        /\ UNCHANGED << matcher, locals, destString, replacement, err, userStatus,
                        protocol, otherMatcher >>

\* the caller takes the result of the call that returned and decides on its
\* next call: in the append loop by what find() returned, noting where the
\* match ends when it returned true; after replaceAll
\* and after a single call it drops its destination
CallerResume ==
    /\ Resumed
    /\ UNCHANGED otherMatcher
    /\ CASE protocol.phase = "find" ->
               /\ protocol' =
                      IF ret = TRUE
                      THEN [protocol EXCEPT !.phase = "append", !.lastEnd = fMatchEnd]
                      ELSE [protocol EXCEPT !.phase = "tail"]
               /\ UNCHANGED << userDest, userStatus >>
         [] protocol.phase = "append" ->
               /\ protocol' = [protocol EXCEPT !.phase = "find"]
               /\ UNCHANGED << userDest, userStatus >>
         [] protocol.phase = "tail" ->
               /\ protocol' = [protocol EXCEPT !.phase = "done", !.lastEnd = 0]
               /\ UNCHANGED << userDest, userStatus >>
         [] protocol.phase = "done" /\ call # "replaceAll" ->
               UNCHANGED << userDest, userStatus, protocol >>
         [] OTHER ->
               /\ userDest' = << >>
               /\ userStatus' = U_ZERO_ERROR
               /\ protocol' = NoProtocol

\* RegexMatcher::RegexMatcher(pat): the caller takes a new matcher for the
\* same pattern
NewMatcher ==
    /\ pc = "idle" /\ LoopDone
    /\ fInput # NULL
    /\ fInput' = NULL
    /\ fInputLength' = 0
    /\ fBackTrackStack' = << >>
    /\ fCaptureStarts' = [i \in 0..fNumCaptureGroups |-> -1]
    /\ fCaptureEnds' = [i \in 0..fNumCaptureGroups |-> -1]
    /\ fMatchStart' = 0 /\ fMatchEnd' = 0 /\ fLastMatchEnd' = 0 /\ fMatch' = FALSE
    /\ UNCHANGED << fPattern, sharedPattern, locals, pc, call, destString, replacement, ret, err,
                    priorMatchEnd, failedAt, history, caller >>

NextAppend ==
    \/ CallerResume
    \/ BeginAppendLoop
    \/ AppendReplacement
    \/ AppendTail
    \/ NewMatcher
    \/ (CallerFree /\ ResetInput)
    \/ (LoopDone /\ fInput = NULL /\ ResetInput /\ fInput' = protocol.input)
    \/ (protocol.phase \in {"none", "find"} /\ Find)
    \/ (LoopDone /\ ReplaceAll /\ replacement' = protocol.repl)
    \/ FindLoop \/ FindCheck \/ ReplaceAllLoop
    \/ MatchAtStep

SpecAppend == Init /\ [][NextAppend]_vars


(***************************************************************************)
(* Two matchers made from one pattern.  The caller owns both and runs one  *)
(* of them at a time, moving from one to the other between any two steps   *)
(* of a call, the steps of MatchAt's main loop included; what the two      *)
(* share is the RegexPattern object.                                       *)
(***************************************************************************)
\* the running matcher with its call, as the caller parks it
Parked ==
    [ fInput |-> fInput, fInputLength |-> fInputLength,
      fMatchStart |-> fMatchStart, fMatchEnd |-> fMatchEnd,
      fLastMatchEnd |-> fLastMatchEnd, fMatch |-> fMatch,
      fCaptureStarts |-> fCaptureStarts, fCaptureEnds |-> fCaptureEnds,
      fBackTrackStack |-> fBackTrackStack,
      pc |-> pc, call |-> call,
      startPos |-> startPos, status |-> status,
      startIdx |-> startIdx, stackBase |-> stackBase, inputIdx |-> inputIdx, patIdx |-> patIdx,
      ret |-> ret, err |-> err,
      priorMatchEnd |-> priorMatchEnd, failedAt |-> failedAt,
      priorMatchStart |-> priorMatchStart, iterations |-> iterations ]

\* the other matcher runs next, and the running one waits where it is
Switch ==
    /\ otherMatcher' = Parked
    /\ fInput' = otherMatcher.fInput
    /\ fInputLength' = otherMatcher.fInputLength
    /\ fMatchStart' = otherMatcher.fMatchStart
    /\ fMatchEnd' = otherMatcher.fMatchEnd
    /\ fLastMatchEnd' = otherMatcher.fLastMatchEnd
    /\ fMatch' = otherMatcher.fMatch
    /\ fCaptureStarts' = otherMatcher.fCaptureStarts
    /\ fCaptureEnds' = otherMatcher.fCaptureEnds
    /\ fBackTrackStack' = otherMatcher.fBackTrackStack
    /\ pc' = otherMatcher.pc
    /\ call' = otherMatcher.call
    /\ startPos' = otherMatcher.startPos
    /\ status' = otherMatcher.status
    /\ startIdx' = otherMatcher.startIdx
    /\ stackBase' = otherMatcher.stackBase
    /\ inputIdx' = otherMatcher.inputIdx
    /\ patIdx' = otherMatcher.patIdx
    /\ ret' = otherMatcher.ret
    /\ err' = otherMatcher.err
    /\ priorMatchEnd' = otherMatcher.priorMatchEnd
    /\ failedAt' = otherMatcher.failedAt
    /\ priorMatchStart' = otherMatcher.priorMatchStart
    /\ iterations' = otherMatcher.iterations
    /\ UNCHANGED << fPattern, sharedPattern, destString, replacement,
                    userDest, userStatus, protocol >>

\* each matcher is given its subject once and then matches it from the start
NextTwo ==
    \/ Switch
    \/ Resume
    \/ (fInput = NULL /\ ResetInput)
    \/ (fMatch = FALSE /\ fBackTrackStack = << >> /\ LookingAt)
    \/ LookingAtReturn
    \/ MatchAtStep

SpecTwo == Init /\ [][NextTwo]_vars

(***************************************************************************)
(* A matcher whose backtrack stack may fail to grow.                       *)
(***************************************************************************)
\* UVector32::reserveBlock(size, status) when the vector cannot grow: no cell
\* is added and the status is set
reserveBlockFailure == U_MEMORY_ALLOCATION_ERROR

\* URX_STATE_SAVE when reserveBlock fails: the check of status after the
\* switch breaks the main loop, and MatchAt returns with isMatch still FALSE
URX_STATE_SAVE_NoMemory ==
    /\ AtOp("URX_STATE_SAVE")
    /\ status' = reserveBlockFailure
    /\ ExitMatchAt(FALSE)
    /\ patIdx' = patIdx + 1
    /\ UNCHANGED << fPattern, sharedPattern, fInput, fInputLength, fCaptureStarts,
                    fCaptureEnds, fBackTrackStack, call, startPos, startIdx, stackBase,
                    inputIdx, destString, replacement, caller, ret, err,
                    priorMatchEnd, failedAt, history >>

NextNoMemory ==
    \/ Resume
    \/ ResetInput
    \/ Find \/ FindStart \/ FindLoop \/ FindCheck
    \/ LookingAt \/ LookingAtReturn
    \/ Matches \/ MatchesReturn
    \/ MatchAtStep
    \/ URX_STATE_SAVE_NoMemory

SpecNoMemory == Init /\ [][NextNoMemory]_vars

(***************************************************************************)
(* A matcher over a compiled pattern that does not open with the frame     *)
(* leading to URX_FAIL.                                                    *)
(***************************************************************************)
InitNoFailFrame == RegexMatcher(Len(Patterns) + 1, PatNoFailFrame)

NextNoFailFrame ==
    \/ Resume
    \/ ResetInput
    \/ Find \/ FindLoop \/ FindCheck
    \/ LookingAt \/ LookingAtReturn
    \/ URX_STATE_SAVE \/ URX_ONECHAR \/ URX_JMP \/ URX_END

SpecNoFailFrame == InitNoFailFrame /\ [][NextNoFailFrame]_vars

(***************************************************************************)
(* Matchers over ^.$ and $, with subjects that end in every line           *)
(* terminator.                                                             *)
(***************************************************************************)
InitLineEnd ==
    \/ RegexMatcher(Len(Patterns) + 2, PatAnchors)
    \/ RegexMatcher(Len(Patterns) + 3, PatDollar)

NextLineEnd ==
    \/ Resume
    \/ ResetInput
    \/ Find \/ FindLoop \/ FindCheck
    \/ LookingAt \/ LookingAtReturn
    \/ Matches \/ MatchesReturn
    \/ URX_STATE_SAVE \/ URX_JMP \/ URX_FAIL \/ URX_END
    \/ URX_CARET \/ URX_DOTANY \/ URX_DOLLAR

SpecLineEnd == InitLineEnd /\ [][NextLineEnd]_vars

(***************************************************************************)
(* Matchers over \b and \B, with subjects that hold combining marks and    *)
(* surrogates.                                                             *)
(***************************************************************************)
InitWord ==
    \/ RegexMatcher(Len(Patterns) + 4, PatWordBoundary)
    \/ RegexMatcher(Len(Patterns) + 5, PatNotWordBoundary)

NextWord ==
    \/ Resume
    \/ ResetInput
    \/ Find \/ FindLoop \/ FindCheck
    \/ LookingAt \/ LookingAtReturn
    \/ URX_STATE_SAVE \/ URX_JMP \/ URX_FAIL \/ URX_END
    \/ URX_BACKSLASH_B

SpecWord == InitWord /\ [][NextWord]_vars

(***************************************************************************)
(* Matchers over one consuming opcode each, with subjects that hold        *)
(* surrogate pairs, lone surrogates, combining marks and CR LF.            *)
(***************************************************************************)
InitCodePoints ==
    \E k \in 1..Len(CodePointPatterns) :
        RegexMatcher(Len(Patterns) + 5 + k, CodePointPatterns[k])

NextCodePoints ==
    \/ Resume
    \/ ResetInput
    \/ Find \/ FindLoop \/ FindCheck
    \/ LookingAt \/ LookingAtReturn
    \/ URX_STATE_SAVE \/ URX_JMP \/ URX_FAIL \/ URX_END
    \/ URX_ONECHAR \/ URX_SETREF \/ URX_STATIC_SETREF
    \/ URX_DOTANY \/ URX_DOTANY_ALL
    \/ URX_BACKSLASH_D \/ URX_BACKSLASH_X

SpecCodePoints == InitCodePoints /\ [][NextCodePoints]_vars

(***************************************************************************)
(* Matchers over ., dot-all . and \X, with subjects that hold line         *)
(* terminators, control characters, combining marks and surrogates.        *)
(***************************************************************************)
ClusterPatterns == << PatDot, PatDotAll, PatGrapheme >>

InitClusters ==
    \E k \in 1..Len(ClusterPatterns) :
        RegexMatcher(Len(Patterns) + 12 + k, ClusterPatterns[k])

NextClusters ==
    \/ Resume
    \/ ResetInput
    \/ Find \/ FindLoop \/ FindCheck
    \/ LookingAt \/ LookingAtReturn
    \/ Matches \/ MatchesReturn
    \/ URX_STATE_SAVE \/ URX_JMP \/ URX_FAIL \/ URX_END
    \/ URX_DOTANY \/ URX_DOTANY_ALL \/ URX_BACKSLASH_X

SpecClusters == InitClusters /\ [][NextClusters]_vars

(***************************************************************************)
(* Matchers over a|ab, whose first alternative matches a prefix of what    *)
(* the second one matches, and over \z, which matches the empty string at  *)
(* the end of the input only.                                              *)
(***************************************************************************)
InitEnds ==
    \/ RegexMatcher(Len(Patterns) + 16, PatPrefixFirst)
    \/ RegexMatcher(Len(Patterns) + 17, PatEndOnly)

NextEnds ==
    \/ Resume
    \/ Reset \/ ResetInput
    \/ Find \/ FindStart \/ FindLoop \/ FindCheck
    \/ LookingAt \/ LookingAtReturn
    \/ Matches \/ MatchesReturn
    \/ URX_STATE_SAVE \/ URX_JMP \/ URX_FAIL \/ URX_END
    \/ URX_ONECHAR \/ URX_BACKSLASH_Z

SpecEnds == InitEnds /\ [][NextEnds]_vars

(***************************************************************************)
(* A matcher with a history, and a second matcher made from the same       *)
(* pattern to check it against.  The caller takes the first matcher        *)
(* through any operations; after a lookingAt, matches, find(start) or      *)
(* replaceFirst of the first matcher has returned, it gives the second     *)
(* matcher, fresh from its constructor, the same subject and makes the     *)
(* same call on it.                                                        *)
(***************************************************************************)
\* (a)|(b), (a)b|a and \Ga
HistoryPatterns == {2, 4, 7}
HistoryFreeCalls == {"lookingAt", "matches", "findStart", "replaceFirst"}
\* the second matcher is the one that runs
Reference == protocol.phase = "reference"

InitHistory == \E id \in HistoryPatterns : RegexMatcher(id, Patterns[id])

\* the caller puts the first matcher aside and goes on with the second
StartReference ==
    /\ ~Reference
    /\ pc = "returned" /\ call \in HistoryFreeCalls
    /\ otherMatcher' = Parked
    /\ protocol' = [protocol EXCEPT !.phase = "reference"]
    /\ fInput' = otherMatcher.fInput
    /\ fInputLength' = otherMatcher.fInputLength
    /\ fMatchStart' = otherMatcher.fMatchStart
    /\ fMatchEnd' = otherMatcher.fMatchEnd
    /\ fLastMatchEnd' = otherMatcher.fLastMatchEnd
    /\ fMatch' = otherMatcher.fMatch
    /\ fCaptureStarts' = otherMatcher.fCaptureStarts
    /\ fCaptureEnds' = otherMatcher.fCaptureEnds
    /\ fBackTrackStack' = otherMatcher.fBackTrackStack
    /\ pc' = otherMatcher.pc
    /\ call' = otherMatcher.call
    /\ startPos' = otherMatcher.startPos
    /\ status' = otherMatcher.status
    /\ startIdx' = otherMatcher.startIdx
    /\ stackBase' = otherMatcher.stackBase
    /\ inputIdx' = otherMatcher.inputIdx
    /\ patIdx' = otherMatcher.patIdx
    /\ ret' = otherMatcher.ret
    /\ err' = otherMatcher.err
    /\ priorMatchEnd' = otherMatcher.priorMatchEnd
    /\ failedAt' = otherMatcher.failedAt
    /\ priorMatchStart' = otherMatcher.priorMatchStart
    /\ iterations' = otherMatcher.iterations
    /\ UNCHANGED << fPattern, sharedPattern, destString, replacement, userDest, userStatus >>

\* the second matcher is given the subject of the first
ReferenceInput ==
    /\ Reference /\ fInput = NULL
    /\ ResetInput
    /\ fInput' = otherMatcher.fInput

\* the second matcher is called as the first one was: the same operation
\* with the same start index, replacement text and status
ReferenceCall ==
    /\ Reference /\ fInput = otherMatcher.fInput
    /\ LookingAt \/ Matches \/ FindStart \/ ReplaceFirst
    /\ call' = otherMatcher.call
    /\ priorMatchEnd' = otherMatcher.priorMatchEnd
    /\ replacement' = replacement
    /\ err' \in {U_ZERO_ERROR, otherMatcher.err}

NextHistory ==
    \/ ((~Reference \/ call \in {"RegexMatcher", "resetInput"}) /\ Resume)
    \/ (~Reference /\ (Reset \/ ResetInput))
    \/ (~Reference /\ (Find \/ FindStart))
    \/ (~Reference /\ (LookingAt \/ Matches))
    \/ (~Reference /\ ReplaceFirst)
    \/ StartReference
    \/ ReferenceInput
    \/ ReferenceCall
    \/ FindLoop \/ FindCheck
    \/ LookingAtReturn \/ MatchesReturn \/ ReplaceFirstReturn
    \/ URX_STATE_SAVE \/ URX_JMP \/ URX_FAIL \/ URX_END
    \/ URX_START_CAPTURE \/ URX_END_CAPTURE
    \/ URX_ONECHAR \/ URX_BACKSLASH_G

SpecHistory == InitHistory /\ [][NextHistory]_vars

(***************************************************************************)
(* Properties.                                                             *)
(***************************************************************************)
\* a public call has returned and its result has not been taken yet
Returned(name) == pc = "returned" /\ call = name
\* no call is running: the matcher is between two public operations
Quiescent == pc \in {"idle", "returned"}
\* find() has returned: to its caller, or inside replaceAll / replaceFirst
FindReturned == Returned("find") \/ pc \in {"replaceAll", "replaceFirst"}
\* the group numbers the accessors are tried with, valid and invalid
GroupArgs == -2..(fNumCaptureGroups + 2)
\* the text of the subject over [from, to)
InputRange(from, to) == [i \in 1..(to - from) |-> fInput[from + i]]
\* p lies between the halves of a surrogate pair of the subject
SplitsPair(p) ==
    /\ p > 0 /\ p < Len(fInput)
    /\ U16_IS_LEAD(fInput[p]) /\ U16_IS_TRAIL(fInput[p + 1])
\* the code-point positions p with from <= p < to
CodePointPositions(from, to) == { p \in from..(to - 1) : p = from \/ ~SplitsPair(p) }

\* C1: whenever find(), find(start), lookingAt() or matches() has just
\* returned true, 0 <= matchStart <= matchEnd <= inputLength, and every group
\* g in 1..N has captureStarts[g] = -1 or
\* matchStart <= captureStarts[g] <= captureEnds[g] <= matchEnd.
C1_MatchBounds ==
    (/\ pc = "returned"
     /\ call \in {"find", "findStart", "lookingAt", "matches"}
     /\ ret = TRUE)
    => /\ 0 <= fMatchStart /\ fMatchStart <= fMatchEnd /\ fMatchEnd <= fInputLength
       /\ \A g \in 1..fNumCaptureGroups :
              \/ fCaptureStarts[g] = -1
              \/ /\ fMatchStart <= fCaptureStarts[g]
                 /\ fCaptureStarts[g] <= fCaptureEnds[g]
                 /\ fCaptureEnds[g] <= fMatchEnd

\* C1's case: a find() returned true for a match that starts after position 0
\* and has a captured group in it
C1_Witness ==
    /\ Returned("find") /\ ret = TRUE
    /\ fMatchStart > 0 /\ fMatchEnd > fMatchStart
    /\ \E g \in 1..fNumCaptureGroups : fCaptureStarts[g] >= fMatchStart

\* C2: find() reports the leftmost match at or after the previous match end.
\* When it returns true, matchStart >= the matchEnd held on entry and MatchAt
\* has failed at exactly the code-point positions from there up to
\* matchStart; when it returns false, MatchAt has failed at every code-point
\* position from there up to inputLength.
C2_FindLeftmost ==
    (FindReturned /\ call # "findStart")
    => IF ret = TRUE
       THEN /\ fMatchStart >= priorMatchEnd
            /\ failedAt = CodePointPositions(priorMatchEnd, fMatchStart)
       ELSE failedAt = CodePointPositions(priorMatchEnd, fInputLength)

\* C2's case: a find() that started at a previous match's end, failed at some
\* positions and then matched
C2_Witness ==
    /\ Returned("find") /\ ret = TRUE
    /\ priorMatchEnd > 0
    /\ fMatchStart > priorMatchEnd

\* C3 (as claimed): after a find() or find(start) that returns false, match
\* is false, also when the previous match ended at inputLength.
C3_FindFalseClearsMatch ==
    ((Returned("find") \/ Returned("findStart")) /\ ret = FALSE) => fMatch = FALSE

\* C4: after reset() or reset(input), match is false, matchStart, matchEnd and
\* lastMatchEnd are 0 and captureStarts[g] = -1 for every g in 0..N;
\* after reset(input), inputLength is the length of the bound subject.
C4_ResetState ==
    (Returned("reset") \/ Returned("resetInput"))
    => /\ fMatch = FALSE
       /\ fMatchStart = 0 /\ fMatchEnd = 0 /\ fLastMatchEnd = 0
       /\ \A g \in 0..fNumCaptureGroups : fCaptureStarts[g] = -1
       /\ Returned("resetInput") => (fInput # NULL /\ fInputLength = Len(fInput))

\* C4's case: reset(input) returned on a matcher that had matched before (a
\* capture end and backtrack frames are left over from it)
C4_Witness ==
    /\ Returned("resetInput")
    /\ fBackTrackStack # << >>
    /\ \E g \in 1..fNumCaptureGroups : fCaptureEnds[g] > 0

\* C5: matches() returning true implies matchStart = 0 and
\* matchEnd = inputLength; lookingAt() returning true implies matchStart = 0.
C5_AnchoredAtStart ==
    /\ (Returned("matches") /\ ret = TRUE) => (fMatchStart = 0 /\ fMatchEnd = fInputLength)
    /\ (Returned("lookingAt") /\ ret = TRUE) => fMatchStart = 0

\* C5's case: matches() returned true on a non-empty subject, on a matcher
\* that carries frames of earlier matches
C5_Witness ==
    /\ Returned("matches") /\ ret = TRUE
    /\ fInputLength > 1
    /\ Len(fBackTrackStack) > fCaptureStateSize

\* start, end and group called with a status that is not a failure
C6_Errors ==
    \A g \in GroupArgs :
        LET s == start(g, U_ZERO_ERROR)
            e == end(g, U_ZERO_ERROR)
            t == group(g, U_ZERO_ERROR)
        IN  /\ fMatch = FALSE =>
                /\ s = [val |-> -1, status |-> U_REGEX_INVALID_STATE]
                /\ e = [val |-> -1, status |-> U_REGEX_INVALID_STATE]
                /\ t = [val |-> << >>, status |-> U_REGEX_INVALID_STATE]
            /\ (fMatch /\ (g < 0 \/ g > fNumCaptureGroups)) =>
                /\ s = [val |-> -1, status |-> U_INDEX_OUTOFBOUNDS_ERROR]
                /\ e = [val |-> -1, status |-> U_INDEX_OUTOFBOUNDS_ERROR]
                /\ t = [val |-> << >>, status |-> U_INDEX_OUTOFBOUNDS_ERROR]
            /\ (fMatch /\ g >= 0 /\ g <= fNumCaptureGroups) =>
                /\ s.status = U_ZERO_ERROR
                /\ e.status = U_ZERO_ERROR
                /\ t.status = U_ZERO_ERROR

\* a call of start, end or group leaves every field of the matcher as it was
C6_Frame ==
    (pc = "idle" /\ call' \in {"start", "end", "group"}) => UNCHANGED matcher

\* C6: start(g), end(g) and group(g) fail with REGEX_INVALID_STATE whenever
\* match is false (whatever g is), fail with INDEX_OUTOFBOUNDS when match is
\* true and g < 0 or g > N, return -1 (the empty string for group) on either
\* error, and never modify the matcher.
C6_AccessorErrors == [](Quiescent => C6_Errors) /\ [][C6_Frame]_vars

\* C6's case: start(g) was called with a bad group number on a matcher that
\* holds a match
C6_Witness ==
    /\ Returned("start")
    /\ fMatch
    /\ err = U_INDEX_OUTOFBOUNDS_ERROR
    /\ ret = -1

\* the single code unit matched, when the match is one code unit long
MatchedUnit == fInput[fMatchStart + 1]

\* C7: after a successful match, a group that was not captured on the
\* accepting path reports start(g) = -1, end(g) = -1 and group(g) = "" with a
\* success status, whatever captureEnds[g] holds.  For (a)|(b) the group of
\* the alternative not taken is such a group; for (a)b|a group 1 is one when
\* the second alternative matched, after the first was abandoned.
C7_NonParticipating ==
    (Quiescent /\ fMatch)
    => /\ \A g \in 1..fNumCaptureGroups :
              fCaptureStarts[g] = -1 =>
                  /\ start(g, U_ZERO_ERROR) = [val |-> -1, status |-> U_ZERO_ERROR]
                  /\ end(g, U_ZERO_ERROR) = [val |-> -1, status |-> U_ZERO_ERROR]
                  /\ group(g, U_ZERO_ERROR) = [val |-> << >>, status |-> U_ZERO_ERROR]
       /\ Patterns[fPattern] = PatAlternation =>
              /\ fMatchEnd = fMatchStart + 1
              /\ MatchedUnit = 97 =>
                     /\ start(1, U_ZERO_ERROR).val = fMatchStart
                     /\ end(2, U_ZERO_ERROR).val = -1
              /\ MatchedUnit = 98 =>
                     /\ start(2, U_ZERO_ERROR).val = fMatchStart
                     /\ end(1, U_ZERO_ERROR).val = -1
       /\ Patterns[fPattern] = PatCaptureBacktrack =>
              IF fMatchEnd = fMatchStart + 2
              THEN /\ start(1, U_ZERO_ERROR).val = fMatchStart
                   /\ end(1, U_ZERO_ERROR).val = fMatchStart + 1
              ELSE /\ fMatchEnd = fMatchStart + 1
                   /\ start(1, U_ZERO_ERROR).val = -1
                   /\ end(1, U_ZERO_ERROR).val = -1

\* C7's case: a match of (a)|(b) through one group, while the other group
\* still holds the end of an earlier match
C7_Witness ==
    /\ Quiescent /\ fMatch
    /\ Patterns[fPattern] = PatAlternation
    /\ \E g \in 1..2 : fCaptureStarts[g] = -1 /\ fCaptureEnds[g] > 0

\* C8: whenever match is true, group(0) is the text of the subject over
\* [start(0), end(0)), and for every g in 1..N with start(g) >= 0,
\* start(g) <= end(g) and group(g) is the text over [start(g), end(g)).
C8_GroupIsSubstring ==
    (Quiescent /\ fMatch)
    => \A g \in 0..fNumCaptureGroups :
           LET s == start(g, U_ZERO_ERROR).val
               e == end(g, U_ZERO_ERROR).val
           IN  (g = 0 \/ s >= 0) =>
                   /\ 0 <= s /\ s <= e /\ e <= fInputLength
                   /\ group(g, U_ZERO_ERROR).val = InputRange(s, e)

\* C8's case: a match whose captured group is not empty and does not start
\* at the start of the subject
C8_Witness ==
    /\ Quiescent /\ fMatch
    /\ \E g \in 1..fNumCaptureGroups :
           /\ fCaptureStarts[g] > 0
           /\ fCaptureEnds[g] > fCaptureStarts[g]

\* C9 (as claimed): the backtrack stack carries no frames between
\* operations: it is empty whenever MatchAt has returned and whenever a
\* public call has returned.
C9_StackEmptyBetweenCalls ==
    (pc \in {"idle", "returned", "find_ret", "lookingAt", "matches"})
    => fBackTrackStack = << >>

AfterBoth ==
    /\ Returned("replaceAll")
    /\ LoopDone
    /\ fInput = protocol.input
    /\ replacement = protocol.repl

C12_ReplaceAllIterations ==
    (call = "replaceAll") => iterations <= fInputLength

\* C13 (as claimed): a find() that follows a successful find() without a
\* reset in between and succeeds too reports a match position strictly
\* greater than the previous one, also after a zero-width match.
C13_FindProgress ==
    (Returned("find") /\ ret = TRUE /\ priorMatchStart >= 0)
    => fMatchStart > priorMatchStart


\* appendReplacement called without a match, or with a failing status
C14_Errors ==
    \A d \in Dests, repl \in ReplacementTexts :
        /\ fMatch = FALSE =>
               appendReplacement(d, repl, U_ZERO_ERROR)
                   = [dest |-> d, status |-> U_REGEX_INVALID_STATE]
        /\ appendReplacement(d, repl, U_ILLEGAL_ARGUMENT_ERROR)
               = [dest |-> d, status |-> U_ILLEGAL_ARGUMENT_ERROR]
        /\ appendReplacement(d, repl, U_INDEX_OUTOFBOUNDS_ERROR)
               = [dest |-> d, status |-> U_INDEX_OUTOFBOUNDS_ERROR]

\* a call of appendReplacement leaves every field of the matcher as it was,
\* and made in the append loop with a failing status it leaves the caller's
\* dest and status as they were
C14_Frame ==
    (pc = "idle" /\ call' = "appendReplacement")
    => /\ UNCHANGED matcher
       /\ (protocol.phase = "append" /\ U_FAILURE(userStatus))
              => UNCHANGED << userDest, userStatus >>

\* C14: appendReplacement(dest, repl) called while match is false sets the
\* status to REGEX_INVALID_STATE and leaves dest and every field of the
\* matcher unchanged; called with a status that already shows a failure it
\* changes neither dest, nor the status, nor the matcher.
C14_AppendReplacementErrors == [](Quiescent => C14_Errors) /\ [][C14_Frame]_vars

\* C14's case: appendReplacement was called on a dest that was not empty,
\* after a find() that failed behind an earlier match
C14_Witness ==
    /\ Returned("appendReplacement")
    /\ fMatch = FALSE /\ fMatchEnd > 0
    /\ err = U_REGEX_INVALID_STATE
    /\ userDest = << 122 >>


\* the expansion of a replacement text as the specification words it,
\* read from the i-th code unit of repl on
IsDecimalDigit(c) == c \in 48..57
\* the number of digits that follow a '$' and are consumed
RECURSIVE DigitsFrom(_, _, _)
DigitsFrom(repl, i, k) ==
    IF k < fMaxCaptureDigits /\ i + k <= Len(repl) /\ IsDecimalDigit(repl[i + k])
    THEN DigitsFrom(repl, i, k + 1)
    ELSE k
\* the number spelled by the k digits from the i-th code unit on
RECURSIVE NumberFrom(_, _, _)
NumberFrom(repl, i, k) ==
    IF k = 0 THEN 0
    ELSE NumberFrom(repl, i, k - 1) * 10 + (repl[i + k - 1] - 48)
RECURSIVE Expansion(_, _)
Expansion(repl, i) ==
    IF i > Len(repl) THEN << >>
    ELSE IF repl[i] = BACKSLASH
    THEN IF i = Len(repl) THEN << >>
         ELSE << repl[i + 1] >> \o Expansion(repl, i + 2)
    ELSE IF repl[i] = DOLLARSIGN
    THEN LET k == DigitsFrom(repl, i + 1, 0)
         IN  IF k = 0 THEN << DOLLARSIGN >> \o Expansion(repl, i + 1)
             ELSE group(NumberFrom(repl, i + 1, k), U_ZERO_ERROR).val
                      \o Expansion(repl, i + 1 + k)
    ELSE << repl[i] >> \o Expansion(repl, i + 1)
\* every group number the replacement text spells is one the pattern has
RECURSIVE NamesOnlyGroups(_, _)
NamesOnlyGroups(repl, i) ==
    IF i > Len(repl) THEN TRUE
    ELSE IF repl[i] = BACKSLASH THEN NamesOnlyGroups(repl, i + 2)
    ELSE IF repl[i] = DOLLARSIGN
    THEN LET k == DigitsFrom(repl, i + 1, 0)
         IN  /\ k > 0 => NumberFrom(repl, i + 1, k) <= fNumCaptureGroups
             /\ NamesOnlyGroups(repl, i + 1 + k)
    ELSE NamesOnlyGroups(repl, i + 1)
\* what appendReplacement is to leave in dest
Expanded(d, repl) == d \o InputRange(fLastMatchEnd, fMatchStart) \o Expansion(repl, 1)

\* C15 (as claimed): with match true, appendReplacement(dest, repl) appends
\* to dest the text input[lastMatchEnd..matchStart) and then the expansion of
\* repl: the code unit after a backslash (nothing for a trailing backslash,
\* which ends the text), group(g) for '$' and the digits spelling g (at most
\* maxCaptureDigits of them), '$' itself when no digit follows, every other
\* code unit as it is.
C15_AppendReplacementExpands ==
    (Quiescent /\ fMatch)
    => \A d \in Dests, repl \in ReplacementTexts :
           appendReplacement(d, repl, U_ZERO_ERROR).dest = Expanded(d, repl)

\* C15 (amended): the same, for replacement texts that name only groups the
\* pattern has; the call then ends with a success status.
C15_AppendReplacementExpandsGroups ==
    (Quiescent /\ fMatch)
    => \A d \in Dests, repl \in ReplacementTexts :
           NamesOnlyGroups(repl, 1) =>
               appendReplacement(d, repl, U_ZERO_ERROR)
                   = [dest |-> Expanded(d, repl), status |-> U_ZERO_ERROR]

\* C15's case: appendReplacement("$12") was called on a dest that was not
\* empty, with a match that starts behind the end of the match before it
\* and has captured its group 1: dest has grown by the text between, the
\* group and the digit 2
C15_Witness ==
    /\ Returned("appendReplacement")
    /\ fMatch /\ fMatchStart > fLastMatchEnd
    /\ err = U_ZERO_ERROR
    /\ replacement = << DOLLARSIGN, 49, 50 >>
    /\ fNumCaptureGroups >= 1 /\ fCaptureStarts[1] >= 0
    /\ fCaptureEnds[1] > fCaptureStarts[1]
    /\ Len(userDest) = 1 + (fMatchStart - fLastMatchEnd)
                         + (fCaptureEnds[1] - fCaptureStarts[1]) + 1


\* the expansion of a replacement text as appendReplacement makes it for
\* the match held
ExpansionOf(repl) == ExpandReplacement(<< >>, repl, 0, U_ZERO_ERROR).dest

\* C16: replaceFirst(repl) resets the matcher first, whatever it held, and
\* returns input[0..s) + expansion(repl) + input[e..inputLength) for the first
\* match [s, e) that find() reaches from position 0, so that the text after
\* it stays as it is; it returns the input unchanged when there is no match.
C16_ReplaceFirst ==
    (Returned("replaceFirst") /\ err # U_ILLEGAL_ARGUMENT_ERROR)
    => IF fMatch
       THEN /\ failedAt = CodePointPositions(0, fMatchStart)
            /\ fLastMatchEnd = 0
            /\ ret = InputRange(0, fMatchStart) \o ExpansionOf(replacement)
                         \o InputRange(fMatchEnd, fInputLength)
            /\ NamesOnlyGroups(replacement, 1) =>
                   ExpansionOf(replacement) = Expansion(replacement, 1)
       ELSE /\ failedAt = CodePointPositions(0, fInputLength)
            /\ ret = fInput

\* C16's case: replaceFirst("$1x") on a matcher that carried frames of an
\* earlier match replaced a match that has text before it and after it
C16_Witness ==
    /\ Returned("replaceFirst")
    /\ err = U_ZERO_ERROR
    /\ fMatch /\ fMatchStart > 0 /\ fMatchEnd < fInputLength
    /\ replacement = << DOLLARSIGN, 49, 120 >>
    /\ fNumCaptureGroups >= 1
    /\ Len(fBackTrackStack) >= 2 * fCaptureStateSize
    /\ ret # fInput


\* find(start) called with a start outside [0, inputLength)
C17_OutOfBounds ==
    \A st \in StartArgs :
        ((st < 0 \/ st >= fInputLength) /\ FindStartAt(st, U_ZERO_ERROR))
        => /\ pc' = "returned"
           /\ ret' = FALSE
           /\ err' = U_INDEX_OUTOFBOUNDS_ERROR
           /\ UNCHANGED matcher

\* find(start) called with a start inside [0, inputLength): the matcher is
\* reset before the scan starts at start
C17_InBounds ==
    \A st \in StartArgs :
        ((0 <= st /\ st < fInputLength) /\ FindStartAt(st, U_ZERO_ERROR))
        => /\ pc' = "find" /\ startPos' = st /\ priorMatchEnd' = st
           /\ fMatch' = FALSE
           /\ fMatchStart' = 0 /\ fMatchEnd' = 0 /\ fLastMatchEnd' = 0

\* find(start) has returned true
C17_Found ==
    (Returned("findStart") /\ ret = TRUE)
    => /\ fMatchStart >= priorMatchEnd
       /\ fLastMatchEnd = 0
       /\ err = U_ZERO_ERROR

\* C17: find(start) with start < 0 or start >= inputLength (start ==
\* inputLength and every start on an empty input included) returns false with
\* INDEX_OUTOFBOUNDS and leaves the match flag, matchStart, matchEnd,
\* lastMatchEnd and the capture arrays as they were; with a start inside the
\* input it resets first, so a true result has matchStart >= start and
\* lastMatchEnd = 0 whatever was matched before.
C17_FindStartBounds ==
    [][C17_OutOfBounds /\ C17_InBounds]_vars /\ []C17_Found

\* C17's case: find(start) refused its start on a matcher whose last match
\* ended at inputLength; the match is still held
C17_Witness ==
    /\ Returned("findStart")
    /\ ret = FALSE /\ err = U_INDEX_OUTOFBOUNDS_ERROR
    /\ fMatch /\ fMatchEnd = fInputLength /\ fMatchEnd > fMatchStart
    /\ \E g \in 1..fNumCaptureGroups : fCaptureStarts[g] >= 0

(***************************************************************************)
(* C18: no operation of a matcher writes the compiled pattern, and two     *)
(* matchers made from one pattern do not interfere.  Whatever the caller   *)
(* interleaves, down to single steps of MatchAt's main loop: a step of the *)
(* running matcher leaves the pattern and the waiting matcher as they      *)
(* were, so each matcher goes through the steps it goes through alone; and *)
(* two matchers given the same subject and the same status return the      *)
(* same value from lookingAt() and hold the same match and captures.       *)
(***************************************************************************)
C18_PatternNotWritten == sharedPattern' = sharedPattern
C18_OtherUntouched == Switch \/ otherMatcher' = otherMatcher
\* both matchers have returned from lookingAt() on the same subject, called
\* with the same status
C18_SameCalls ==
    /\ Returned("lookingAt")
    /\ otherMatcher.pc = "returned" /\ otherMatcher.call = "lookingAt"
    /\ fInput = otherMatcher.fInput
    /\ err = otherMatcher.err
C18_SameResults ==
    C18_SameCalls =>
        /\ ret = otherMatcher.ret
        /\ fMatch = otherMatcher.fMatch
        /\ fMatchStart = otherMatcher.fMatchStart
        /\ fMatchEnd = otherMatcher.fMatchEnd
        /\ fCaptureStarts = otherMatcher.fCaptureStarts
        /\ fCaptureEnds = otherMatcher.fCaptureEnds
C18_NoInterference ==
    /\ [][C18_PatternNotWritten /\ C18_OtherUntouched]_vars
    /\ []C18_SameResults
\* both matchers are inside MatchAt on different subjects, one of them with
\* a saved state on its stack
C18_Witness ==
    /\ pc = "MatchAt" /\ otherMatcher.pc = "MatchAt"
    /\ fInput # otherMatcher.fInput
    /\ patIdx > 0 /\ otherMatcher.patIdx > 0
    /\ fBackTrackStack # << >>

(***************************************************************************)
(* C19: errors of the interpreter reach the caller.  When a step of        *)
(* MatchAt sets a failure status (the growth of the backtrack stack in     *)
(* URX_STATE_SAVE), MatchAt stops at that step with fMatch FALSE, and the  *)
(* find(), lookingAt() or matches() that called it returns with a failure  *)
(* in the status its caller sees.                                          *)
(***************************************************************************)
\* MatchAt has returned into find, lookingAt or matches with a failure
C19_MatchAtFailed ==
    /\ pc \in {"find_ret", "lookingAt", "matches"}
    /\ U_FAILURE(status)
C19_StopsAtStep ==
    (pc = "MatchAt" /\ U_FAILURE(status')) => (pc' # "MatchAt" /\ fMatch' = FALSE)
C19_ReachesCaller ==
    (C19_MatchAtFailed /\ pc' = "returned") => (ret' = FALSE /\ U_FAILURE(err'))
C19_InterpreterErrorsPropagate == [][C19_StopsAtStep /\ C19_ReachesCaller]_vars

(***************************************************************************)
(* C20: appendTail(dest) appends exactly input[matchEnd..inputLength) to   *)
(* dest and changes no field of the matcher; after reset() that is the     *)
(* whole subject, and after the find() that ended an append loop with      *)
(* false it is the text that follows the last match the loop found.        *)
(***************************************************************************)
\* the function: for every destination, in every state a call can start in
C20_Appends ==
    \A d \in Dests \cup {userDest} :
        /\ appendTail(d) = d \o InputRange(fMatchEnd, fInputLength)
        /\ (fInput # NULL /\ IsReset) => appendTail(d) = d \o fInput
\* the call: it returns what the function gives for its destination, which
\* in the append loop is what the caller has built so far, followed by the
\* subject from the end of the last match the loop found
C20_Call ==
    (pc = "idle" /\ call' = "appendTail") =>
        /\ UNCHANGED matcher
        /\ \E d \in Dests \cup {userDest} :
               /\ ret' = d \o InputRange(fMatchEnd, fInputLength)
               /\ userDest' = ret'
        /\ protocol.phase = "tail" =>
               ret' = userDest \o InputRange(protocol.lastEnd, fInputLength)
C20_AppendTail == [](Quiescent => C20_Appends) /\ [][C20_Call]_vars
\* C20's case: the appendTail that ends an append loop has returned, the
\* loop found a match that ends inside the subject and had text in dest
C20_Witness ==
    /\ Returned("appendTail") /\ protocol.phase = "tail"
    /\ fMatchEnd > 0 /\ fMatchEnd < fInputLength
    /\ fMatchStart < fMatchEnd
    /\ Len(ret) > fInputLength - fMatchEnd
    /\ ret # fInput

(***************************************************************************)
(* C21: URX_STATE_SAVE and backTrack are inverses on the saved state.  A   *)
(* push adds one frame of 2N+2 cells holding the captures of the groups N  *)
(* down to 1, the target and inputIdx, and changes nothing else; a pop     *)
(* takes the top frame away and leaves patIdx, inputIdx and the captures   *)
(* of the groups 1..N as that frame holds them, so that what a capture     *)
(* opcode wrote after the push is undone; group 0 is not in the frame.     *)
(***************************************************************************)
\* the frame STATE_SAVE(target) pushes at input index idx with the captures
\* starts and ends
Frame(target, idx, starts, ends) ==
    LET n == fNumCaptureGroups
    IN  [k \in 1..(2 * n + 2) |->
            IF k = 2 * n + 2 THEN idx
            ELSE IF k = 2 * n + 1 THEN target
            ELSE IF k % 2 = 1 THEN starts[n - (k - 1) \div 2]
            ELSE ends[n - (k - 2) \div 2]]
C21_Push ==
    (pc = "MatchAt" /\ Len(fBackTrackStack') > Len(fBackTrackStack)) =>
        /\ AtOp("URX_STATE_SAVE")
        /\ fBackTrackStack' =
               fBackTrackStack \o Frame(opValue, inputIdx, fCaptureStarts, fCaptureEnds)
        /\ Len(fBackTrackStack') = Len(fBackTrackStack) + 2 * fNumCaptureGroups + 2
        /\ UNCHANGED << inputIdx, fCaptureStarts, fCaptureEnds >>
C21_Pop ==
    (pc = "MatchAt" /\ Len(fBackTrackStack') < Len(fBackTrackStack)) =>
        /\ fBackTrackStack =
               fBackTrackStack' \o Frame(patIdx', inputIdx', fCaptureStarts', fCaptureEnds')
        /\ fCaptureStarts'[0] = fCaptureStarts[0]
        /\ fCaptureEnds'[0] = fCaptureEnds[0]
\* the stack changes by pushes and pops only
C21_PushOrPop ==
    fBackTrackStack' # fBackTrackStack =>
        /\ pc = "MatchAt"
        /\ Len(fBackTrackStack') # Len(fBackTrackStack)
C21_SaveRestore == [][C21_Push /\ C21_Pop /\ C21_PushOrPop]_vars
\* C21's case: (a)b|a at an "a" not followed by "b": group 1 was captured
\* after the push, the pop has undone the capture and the second alternative
\* starts at the index of the push
C21_Witness ==
    /\ Patterns[fPattern] = PatCaptureBacktrack
    /\ pc = "MatchAt" /\ patIdx = 9
    /\ startIdx < fInputLength /\ fInput[startIdx + 1] = 97
    /\ inputIdx = startIdx
    /\ fCaptureStarts[1] = -1

(***************************************************************************)
(* C22: alternatives are explored last in, first out.  A local failure in  *)
(* MatchAt resumes at the frame pushed last among those still on the       *)
(* stack and takes it off, so that no frame is resumed twice; and MatchAt  *)
(* comes to URX_FAIL only when every frame pushed during the call has been *)
(* resumed.                                                                *)
(***************************************************************************)
\* the opcode the main loop is at fails where it stands
C22_LocalFailure ==
    /\ pc = "MatchAt"
    /\ \/ AtOp("URX_BACKTRACK")
       \/ /\ AtOp("URX_ONECHAR")
          /\ \/ inputIdx >= fInputLength
             \/ U16_NEXT(fInput, inputIdx, fInputLength)[1] # opValue
       \/ AtOp("URX_CARET") /\ inputIdx # 0
       \/ AtOp("URX_BACKSLASH_A") /\ inputIdx # 0
       \/ AtOp("URX_BACKSLASH_Z") /\ inputIdx < fInputLength
       \/ AtOp("URX_DOTANY_ALL") /\ inputIdx >= fInputLength
       \/ AtOp("URX_SETREF") /\ inputIdx >= fInputLength
\* a failure takes the top frame off and goes on where that frame says
C22_ResumesTop ==
    C22_LocalFailure =>
        /\ pc' = "MatchAt"
        /\ fBackTrackStack =
               fBackTrackStack' \o Frame(patIdx', inputIdx', fCaptureStarts', fCaptureEnds')
\* the frames under those of the running MatchAt stay where they are
C22_OwnFrames == pc = "MatchAt" => Len(fBackTrackStack) >= stackBase
\* at URX_FAIL no frame pushed by the running MatchAt is left
C22_FailLast ==
    (pc = "MatchAt" /\ AtOp("URX_FAIL")) => Len(fBackTrackStack) = stackBase
C22_LastInFirstOut ==
    /\ [][C22_ResumesTop]_vars
    /\ [](C22_OwnFrames /\ C22_FailLast)
\* C22's case: \w\W|[b] where \w matched and \W did not: of the two frames
\* of this call the later one was resumed, the first is still on the stack,
\* over frames of earlier calls
C22_Witness ==
    /\ Patterns[fPattern] = PatSets
    /\ pc = "MatchAt" /\ patIdx = 7
    /\ stackBase > 0
    /\ Len(fBackTrackStack) = stackBase + fCaptureStateSize
    /\ startIdx < fInputLength /\ IsWordChar(fInput[startIdx + 1])

(***************************************************************************)
(* C23: a local failure while the backtrack stack holds no frame pushed by *)
(* the running MatchAt ends the call without a match: fMatch is FALSE and  *)
(* fMatchStart and fMatchEnd are as before.  It does not resume at a frame *)
(* an earlier MatchAt left on the stack, and it does not read below the    *)
(* bottom of the stack.                                                    *)
(***************************************************************************)
\* URX_ONECHAR fails where it stands and the running MatchAt has no frame
C23_FailureWithoutFrame ==
    /\ pc = "MatchAt" /\ AtOp("URX_ONECHAR")
    /\ \/ inputIdx >= fInputLength
       \/ U16_NEXT(fInput, inputIdx, fInputLength)[1] # opValue
    /\ Len(fBackTrackStack) <= stackBase
C23_EndsCall ==
    C23_FailureWithoutFrame =>
        /\ pc' # "MatchAt"
        /\ fMatch' = FALSE
        /\ UNCHANGED << fMatchStart, fMatchEnd, fBackTrackStack >>
C24_LoopKeeps ==
    (pc = "MatchAt" /\ pc' = "MatchAt") =>
        UNCHANGED << fMatchStart, fMatchEnd, fLastMatchEnd, startIdx >>
\* the step that leaves the main loop
C24_Exit ==
    (pc = "MatchAt" /\ pc' # "MatchAt") =>
        IF AtOp("URX_END")
        THEN /\ fMatch' = TRUE
             /\ fLastMatchEnd' = fMatchEnd
             /\ fMatchStart' = startIdx
             /\ fMatchEnd' = inputIdx
        ELSE /\ fMatch' = FALSE
             /\ UNCHANGED << fMatchStart, fMatchEnd, fLastMatchEnd >>
C24_Bookkeeping == [][C24_LoopKeeps /\ C24_Exit]_vars
\* C24's case: a MatchAt inside find() has ended with a match that starts
\* after the end of the match before it
C24_Witness ==
    /\ pc = "find_ret" /\ fMatch
    /\ fLastMatchEnd > 0
    /\ fMatchStart > fLastMatchEnd
    /\ fMatchEnd > fMatchStart

(***************************************************************************)
(* C25: URX_DOLLAR succeeds, leaving inputIdx where it is, exactly when    *)
(* inputIdx is the length of the input, or one less with a line terminator *)
(* (U+000A, U+000D, U+000C, U+0085, U+2028, U+2029) as the last code unit, *)
(* or two less with CR LF as the last two; otherwise it backtracks.  So    *)
(* ^.$ on "a\n" gives lookingAt() true with end(0) = 1 and matches()       *)
(* false.                                                                  *)
(***************************************************************************)
C25_AtLineEnd ==
    \/ inputIdx = fInputLength
    \/ /\ inputIdx = fInputLength - 1
       /\ fInput[inputIdx + 1] \in {10, 13, 12, 133, 8232, 8233}
    \/ /\ inputIdx = fInputLength - 2
       /\ fInput[inputIdx + 1] = 13 /\ fInput[inputIdx + 2] = 10
\* the opcode at hand has succeeded without consuming input
SucceedsInPlace ==
    /\ pc' = "MatchAt" /\ patIdx' = patIdx + 1
    /\ UNCHANGED << inputIdx, fBackTrackStack, fCaptureStarts, fCaptureEnds >>
\* the opcode at hand has failed: the top frame is resumed
Backtracks ==
    /\ pc' = "MatchAt"
    /\ fBackTrackStack =
           fBackTrackStack' \o Frame(patIdx', inputIdx', fCaptureStarts', fCaptureEnds')
C25_Step ==
    (pc = "MatchAt" /\ AtOp("URX_DOLLAR")) =>
        IF C25_AtLineEnd THEN SucceedsInPlace ELSE Backtracks
C25_Example ==
    (sharedPattern = PatAnchors /\ fInput = << 97, 10 >> /\ err = U_ZERO_ERROR) =>
        /\ Returned("lookingAt") => (ret = TRUE /\ end(0, U_ZERO_ERROR).val = 1)
        /\ Returned("matches") => ret = FALSE
C25_Dollar == [][C25_Step]_vars /\ []C25_Example
\* C25's case: ^.$ on "a" followed by U+0085: lookingAt() has returned true
\* with the match ending before the terminator
C25_Witness ==
    /\ sharedPattern = PatAnchors /\ fInput = << 97, 133 >>
    /\ Returned("lookingAt") /\ ret = TRUE
    /\ fMatchEnd = 1

(***************************************************************************)
(* C26: URX_CARET and URX_BACKSLASH_A succeed exactly when inputIdx is 0,  *)
(* URX_BACKSLASH_Z exactly when inputIdx is the length of the input; and   *)
(* when one of these or another anchor (URX_DOLLAR, URX_BACKSLASH_B,       *)
(* URX_BACKSLASH_G) succeeds, inputIdx, the captures and the backtrack     *)
(* stack are as before.                                                    *)
(***************************************************************************)
C26_Step ==
    pc = "MatchAt" =>
        /\ (AtOp("URX_CARET") \/ AtOp("URX_BACKSLASH_A")) =>
               IF inputIdx = 0 THEN SucceedsInPlace ELSE Backtracks
        /\ AtOp("URX_BACKSLASH_Z") =>
               IF inputIdx = fInputLength THEN SucceedsInPlace ELSE Backtracks
        /\ (AtOp("URX_DOLLAR") \/ AtOp("URX_BACKSLASH_B") \/ AtOp("URX_BACKSLASH_G")) =>
               (SucceedsInPlace \/ Backtracks)
C26_Anchors == [][C26_Step]_vars
\* C26's case: \A(?:ab|...)\z on "ab": \A has succeeded at 0 and \z at 2,
\* over the frames pushed before them
C26_Witness ==
    /\ sharedPattern = PatString
    /\ pc = "MatchAt" /\ patIdx = 10
    /\ fInputLength = 2 /\ inputIdx = 2
    /\ Len(fBackTrackStack) > stackBase

(***************************************************************************)
(* C27: URX_BACKSLASH_G succeeds exactly when inputIdx is the end of the   *)
(* previous successful match, or 0 when there has been none; in a sequence *)
(* of find() calls a pattern that starts with \G matches only where the    *)
(* match before ended, also after earlier start positions of the same      *)
(* scan have failed.                                                       *)
(*                                                                         *)
(* fMatchEnd is the end of the last successful match since the matcher was *)
(* reset, and 0 when there has been none.                                  *)
(***************************************************************************)
\* a find() on \Ga that returns true has matched where it started to scan
C27_FindSequence ==
    (sharedPattern = PatBackslashG /\ Returned("find") /\ ret = TRUE) =>
        fMatchStart = priorMatchEnd
\* as stated: the test is against the end of the last successful match
C27_StepByLastMatch ==
    (pc = "MatchAt" /\ AtOp("URX_BACKSLASH_G")) =>
        IF inputIdx = fMatchEnd THEN SucceedsInPlace ELSE Backtracks
C27_StepByFlag ==
    (pc = "MatchAt" /\ AtOp("URX_BACKSLASH_G")) =>
        IF (fMatch /\ inputIdx = fMatchEnd) \/ (~fMatch /\ inputIdx = 0)
        THEN SucceedsInPlace ELSE Backtracks
CodePointAt(p) == U16_NEXT(fInput, p, fInputLength)[1]
C28_Mark(c) == u_charType(c) \in {"U_NON_SPACING_MARK", "U_ENCLOSING_MARK"}
\* the positions before pos where a code point starts that is not combining
C28_Before(pos) == { q \in CodePointPositions(0, pos) : ~C28_Mark(CodePointAt(q)) }
C28_PrevIsWord(pos) ==
    /\ C28_Before(pos) # {}
    /\ IsWordChar(CodePointAt(CHOOSE q \in C28_Before(pos) : \A r \in C28_Before(pos) : r <= q))
C28_Boundary(pos) ==
    IF pos >= fInputLength THEN FALSE
    ELSE IF C28_Mark(CodePointAt(pos)) THEN FALSE
    ELSE IsWordChar(CodePointAt(pos)) # C28_PrevIsWord(pos)
\* the function, at every position of the subject where a code point starts,
\* at its end and beyond
C28_Function ==
    fInput # NULL =>
        \A pos \in 0..(fInputLength + 1) :
            ~SplitsPair(pos) => isWordBoundary(pos) = C28_Boundary(pos)
C28_Step ==
    (pc = "MatchAt" /\ AtOp("URX_BACKSLASH_B")) =>
        IF C28_Boundary(inputIdx) # (opValue # 0) THEN SucceedsInPlace ELSE Backtracks
C28_WordBoundary == []C28_Function /\ [][C28_Step]_vars
\* C28's case: \b has succeeded at a letter that follows a space and a
\* combining mark, the scan back having passed over the mark
C28_Witness ==
    /\ sharedPattern = PatWordBoundary
    /\ pc = "MatchAt" /\ patIdx = 4
    /\ inputIdx = 2
    /\ fInput # NULL /\ fInputLength = 3
    /\ fInput[1] = 32 /\ C28_Mark(fInput[2]) /\ fInput[3] = 97

(***************************************************************************)
(* C29: URX_STATIC_SETREF, in both polarities, succeeds only by consuming  *)
(* input: whenever it succeeds inputIdx has gone past exactly one code     *)
(* point whose membership in the set XOR the URX_NEG_SET flag is true, and *)
(* at inputIdx = fInputLength it fails for negated sets as for plain ones. *)
(***************************************************************************)
C29_Negated == (opValue \div URX_NEG_SET) % 2 = 1
C29_Set == IF C29_Negated THEN opValue - URX_NEG_SET ELSE opValue
\* the step has gone on to the next word past the one code point at inputIdx
C29_Consumes ==
    /\ inputIdx < fInputLength
    /\ StaticSetContains(C29_Set, CodePointAt(inputIdx)) # C29_Negated
    /\ pc' = "MatchAt" /\ patIdx' = patIdx + 1
    /\ inputIdx' = U16_NEXT(fInput, inputIdx, fInputLength)[2]
    /\ UNCHANGED << fBackTrackStack, fCaptureStarts, fCaptureEnds >>
C29_Step ==
    (pc = "MatchAt" /\ AtOp("URX_STATIC_SETREF")) => (C29_Consumes \/ Backtracks)
C29_AtEnd ==
    (pc = "MatchAt" /\ AtOp("URX_STATIC_SETREF") /\ inputIdx = fInputLength)
        => Backtracks
C29_StaticSetConsumes == [][C29_Step /\ C29_AtEnd]_vars

(***************************************************************************)
(* C30: code points are consumed atomically.  Started where a code point   *)
(* starts, URX_ONECHAR, URX_SETREF, URX_STATIC_SETREF, URX_DOTANY,         *)
(* URX_DOTANY_ALL, URX_BACKSLASH_D and URX_BACKSLASH_X advance inputIdx by *)
(* 2 over a lead and trail surrogate pair and by 1 otherwise, and never    *)
(* leave inputIdx between the halves of a pair; find() advances its start  *)
(* position by whole code points, so a match found by find() after a reset *)
(* never starts on the trail half of a pair.                               *)
(***************************************************************************)
C30_Consuming ==
    { "URX_ONECHAR", "URX_SETREF", "URX_STATIC_SETREF", "URX_DOTANY",
      "URX_DOTANY_ALL", "URX_BACKSLASH_D", "URX_BACKSLASH_X" }
C30_AtConsuming == pc = "MatchAt" /\ \E t \in C30_Consuming : AtOp(t)
\* a lead surrogate at position i of the subject with a trail right after it
C30_PairAt(i) ==
    /\ i + 1 < fInputLength
    /\ fInput[i + 1] \in 55296..56319 /\ fInput[i + 2] \in 56320..57343
\* the position after the code point that starts at i
C30_After(i) == IF C30_PairAt(i) THEN i + 2 ELSE i + 1
\* position i is the trail half of a pair
C30_Inside(i) == i > 0 /\ C30_PairAt(i - 1)
\* the step has gone on to the next word with the input index at idx
C30_GoesOnAt(idx) ==
    /\ pc' = "MatchAt" /\ patIdx' = patIdx + 1 /\ inputIdx' = idx
    /\ UNCHANGED << fBackTrackStack, fCaptureStarts, fCaptureEnds >>
\* as the claim has it: every one of the opcodes consumes one code point
C30_OneCodePoint ==
    (C30_AtConsuming /\ ~C30_Inside(inputIdx)) =>
        \/ Backtracks
        \/ inputIdx < fInputLength /\ C30_GoesOnAt(C30_After(inputIdx))
\* the positions the engine keeps are never inside a pair
C30_Boundaries ==
    fInput # NULL =>
        /\ pc \in {"MatchAt", "find", "find_ret"} => ~C30_Inside(startIdx)
        /\ pc \in {"find", "find_ret"} => ~C30_Inside(startPos)
        /\ pc = "MatchAt" => ~C30_Inside(inputIdx)
        /\ fMatch => ~C30_Inside(fMatchStart) /\ ~C30_Inside(fMatchEnd)
C30_FindStart ==
    (Returned("find") /\ ret = TRUE) => ~C30_Inside(fMatchStart)
C30_Amount(idx) ==
    IF AtOp("URX_DOTANY_ALL")
    THEN /\ inputIdx < fInputLength
         /\ idx = IF fInput[inputIdx + 1] = 13 /\ inputIdx + 1 < fInputLength
                     /\ fInput[inputIdx + 2] = 10
                  THEN inputIdx + 2 ELSE C30_After(inputIdx)
    ELSE IF AtOp("URX_BACKSLASH_X")
    THEN /\ inputIdx < fInputLength
         /\ idx >= C30_After(inputIdx) /\ idx <= fInputLength
         /\ ~C30_Inside(idx)
    ELSE IF AtOp("URX_STATIC_SETREF") /\ inputIdx >= fInputLength
    THEN idx = inputIdx
    ELSE inputIdx < fInputLength /\ idx = C30_After(inputIdx)
C30_WholeCodePointsStep ==
    (C30_AtConsuming /\ ~C30_Inside(inputIdx)) =>
        \/ Backtracks
        \/ \E idx \in 0..fInputLength : C30_Amount(idx) /\ C30_GoesOnAt(idx)
C31_Terminators == {10, 13, 12, 133, 8232, 8233}
\* every code point, U+0000 to U+10FFFF
C31_CodePoints == 0..1114111
\* the test as a function of the code point, tried once per constructed
\* matcher over every code point there is
C31_Filter ==
    Returned("RegexMatcher") =>
        \A c \in C31_CodePoints : EndOfLine(c) = (c \in C31_Terminators)
C31_Step ==
    (pc = "MatchAt" /\ AtOp("URX_DOTANY")) =>
        IF inputIdx >= fInputLength \/ CodePointAt(inputIdx) \in C31_Terminators
        THEN Backtracks
        ELSE C30_GoesOnAt(C30_After(inputIdx))
C31_DotAny == [][C31_Step]_vars /\ []C31_Filter
\* C31's case: find() over . has failed at U+2029, the terminator whose low
\* seven bits are exactly 0x29, and matched the 'a' after it
C31_Witness ==
    /\ sharedPattern = PatDot
    /\ fInput = << 8233, 97 >>
    /\ Returned("find") /\ ret = TRUE
    /\ fMatchStart = 1 /\ fMatchEnd = 2

(***************************************************************************)
(* C32: URX_DOTANY_ALL fails at the end of the input; otherwise it         *)
(* consumes one code point, and one more code unit exactly when the code   *)
(* point consumed is U+000D and the next code unit is U+000A, so that on   *)
(* CR LF a single dot-all . gives matches() true with end(0) = 2; a CR     *)
(* that is the last code unit is consumed alone.                           *)
(***************************************************************************)
\* the code unit at inputIdx is CR and the one after it, inside the input,
\* is LF
C32_CrLf ==
    /\ fInput[inputIdx + 1] = 13
    /\ inputIdx + 1 < fInputLength /\ fInput[inputIdx + 2] = 10
C32_Step ==
    (pc = "MatchAt" /\ AtOp("URX_DOTANY_ALL")) =>
        IF inputIdx >= fInputLength THEN Backtracks
        ELSE C30_GoesOnAt(C30_After(inputIdx) + (IF C32_CrLf THEN 1 ELSE 0))
C32_Example ==
    (sharedPattern = PatDotAll /\ Returned("matches") /\ err = U_ZERO_ERROR) =>
        /\ fInput = << 13, 10 >> => (ret = TRUE /\ end(0, U_ZERO_ERROR).val = 2)
        /\ fInput = << 13 >> => (ret = TRUE /\ end(0, U_ZERO_ERROR).val = 1)
C32_DotAnyAll == [][C32_Step]_vars /\ []C32_Example
\* C32's case: matches() over dot-all . on CR LF has returned true, the
\* match ending at 2
C32_Witness ==
    /\ sharedPattern = PatDotAll /\ fInput = << 13, 10 >>
    /\ Returned("matches") /\ ret = TRUE
    /\ fMatchStart = 0 /\ fMatchEnd = 2

(***************************************************************************)
(* C33: URX_BACKSLASH_X fails at the end of the input and otherwise        *)
(* consumes one cluster: CR LF as a pair; a control character (a CR not    *)
(* followed by LF included) alone; any other code point together with the  *)
(* longest run of non-spacing and enclosing marks right after it, which    *)
(* the end of the input stops (on U+0065 U+0301 it ends at index 2); each  *)
(* code point is gone over exactly once.                                   *)
(***************************************************************************)
\* the positions of [from, to) where a code point starts
C33_Starts(from, to) == { q \in from..(to - 1) : ~C30_Inside(q) }
\* j ends the longest run of marks that starts at from
C33_EndsRun(from, j) ==
    /\ ~C30_Inside(j)
    /\ \A q \in C33_Starts(from, j) : C28_Mark(CodePointAt(q))
    /\ j = fInputLength \/ ~C28_Mark(CodePointAt(j))
\* the end of the cluster that starts at i < fInputLength
C33_ClusterEnd(i) ==
    IF fInput[i + 1] = 13 /\ i + 1 < fInputLength /\ fInput[i + 2] = 10
    THEN i + 2
    ELSE IF u_charType(CodePointAt(i)) = "U_CONTROL_CHAR"
    THEN C30_After(i)
    ELSE CHOOSE j \in C30_After(i)..fInputLength : C33_EndsRun(C30_After(i), j)
C33_Step ==
    (pc = "MatchAt" /\ AtOp("URX_BACKSLASH_X")) =>
        IF inputIdx >= fInputLength THEN Backtracks
        ELSE /\ \E j \in C30_After(inputIdx)..fInputLength :
                    C33_EndsRun(C30_After(inputIdx), j)
             /\ C30_GoesOnAt(C33_ClusterEnd(inputIdx))
C33_Example ==
    (sharedPattern = PatGrapheme /\ fInput = << 101, 769 >> /\ Returned("find")
        /\ ret = TRUE) => end(0, U_ZERO_ERROR).val = 2
C33_Cluster == [][C33_Step]_vars /\ []C33_Example
\* C33's case: find() over \X on 'e' with a non-spacing and an enclosing mark
\* has matched all three as one cluster
C33_Witness ==
    /\ sharedPattern = PatGrapheme /\ fInput = << 101, 769, 8413 >>
    /\ Returned("find") /\ ret = TRUE
    /\ fMatchStart = 0 /\ fMatchEnd = 3

(***************************************************************************)
(* C34: at every step of MatchAt(startIdx), called with                    *)
(* 0 <= startIdx <= fInputLength, startIdx <= inputIdx <= fInputLength     *)
(* holds, after every backTrack and after URX_STRING too, so that no       *)
(* opcode takes a code unit at or beyond fInputLength for input.           *)
(***************************************************************************)
C34_InputIdxInRange ==
    pc = "MatchAt" => (startIdx <= inputIdx /\ inputIdx <= fInputLength)
\* MatchAt is only called with a start index inside the input or at its end
C34_Called == pc = "MatchAt" => (0 <= startIdx /\ startIdx <= fInputLength)
\* every code unit an opcode reads lies inside the input
C34_ReadsInside ==
    pc = "MatchAt" => \A i \in fInputUC_Reads : 0 <= i /\ i < fInputLength
C34_InsideInput == C34_Called /\ C34_InputIdxInRange /\ C34_ReadsInside
\* C34's case: \A(?:ab|...)\z on "a": URX_STRING, two code units long, has
\* failed with one code unit left and the engine has backtracked to the
\* second alternative at input index 0
C34_Witness ==
    /\ sharedPattern = PatString /\ fInput = << 97 >>
    /\ pc = "MatchAt" /\ AtOp("URX_BACKTRACK")
    /\ startIdx = 0 /\ inputIdx = 0

(***************************************************************************)
(* C35: in every state that sequences of reset, find, find(start),         *)
(* lookingAt and matches lead to,                                          *)
(* 0 <= lastMatchEnd <= matchStart <= matchEnd <= inputLength whenever     *)
(* match is true, so that the text between the matches that                *)
(* appendReplacement copies, input[lastMatchEnd, matchStart), is a range   *)
(* of the input, empty at the least.                                       *)
(***************************************************************************)
C35_Ordered ==
    fMatch =>
        /\ 0 <= fLastMatchEnd /\ fLastMatchEnd <= fMatchStart
        /\ fMatchStart <= fMatchEnd /\ fMatchEnd <= fInputLength
\* the text appendReplacement would copy is the input from lastMatchEnd up to
\* matchStart, code unit by code unit
C35_Between ==
    fMatch =>
        Substring(fInput, fLastMatchEnd, fMatchStart - fLastMatchEnd)
            = InputRange(fLastMatchEnd, fMatchStart)
C35_MatchOrder == C35_Ordered /\ C35_Between
\* C35's case: a second find() has matched after a start position that
\* failed, so that all three positions differ
C35_Witness ==
    /\ Returned("find") /\ ret = TRUE
    /\ 0 < fLastMatchEnd /\ fLastMatchEnd < fMatchStart /\ fMatchStart < fMatchEnd

(***************************************************************************)
(* C36: matches() judges the first accepting path that MatchAt(0) finds    *)
(* and no other: it returns true if and only if that path ends at the end  *)
(* of the input, and it does not go back into the pattern when the path    *)
(* ends earlier; it then returns false, with the match flag left true and  *)
(* start(0), end(0) giving the shorter match, even where another           *)
(* alternative of the pattern matches all of the input.                    *)
(***************************************************************************)
\* under matches(), the first URX_END reached ends MatchAt with the match
\* recorded, wherever the path ends, and leaves the frames of the untried
\* alternatives where they are
C36_FirstPath ==
    (pc = "MatchAt" /\ call = "matches" /\ AtOp("URX_END")) =>
        /\ pc' = "matches"
        /\ fMatch' = TRUE /\ fMatchStart' = 0 /\ fMatchEnd' = inputIdx
        /\ UNCHANGED fBackTrackStack
\* back in matches(), the result is read off the recorded match
C36_Judges ==
    pc = "matches" =>
        /\ pc' = "returned"
        /\ ret' = (fMatch /\ fMatchEnd = fInputLength)
        /\ UNCHANGED << fMatch, fMatchStart, fMatchEnd, fBackTrackStack >>
\* a|ab on "ab": false, the match being "a", with the frame of the second
\* alternative, which spells the whole input, still on the stack
C36_Example ==
    (/\ sharedPattern = PatPrefixFirst /\ fInput = << 97, 98 >>
     /\ Returned("matches") /\ err = U_ZERO_ERROR) =>
        /\ ret = FALSE
        /\ fMatch = TRUE
        /\ start(0, U_ZERO_ERROR).val = 0 /\ end(0, U_ZERO_ERROR).val = 1
        /\ Len(fBackTrackStack) >= 2
        /\ SubSeq(fBackTrackStack, Len(fBackTrackStack) - 1, Len(fBackTrackStack))
               = << 6, 0 >>
        /\ InputRange(0, fInputLength)
               = << URX_VAL(pat(6)), URX_VAL(pat(7)) >>
C36_MatchesFirstPath == [][C36_FirstPath /\ C36_Judges]_vars /\ []C36_Example
\* C36's case: matches() over a|ab has returned false on "ab" with the match
\* flag true
C36_Witness ==
    /\ sharedPattern = PatPrefixFirst /\ fInput = << 97, 98 >>
    /\ Returned("matches") /\ ret = FALSE /\ err = U_ZERO_ERROR
    /\ fMatch = TRUE /\ fMatchEnd = 1

(***************************************************************************)
(* C37: lookingAt(), matches(), find(start) and replaceFirst() do not      *)
(* depend on history: called on two matchers with the same pattern and     *)
(* input whose earlier operations differ (other match flags, bounds,       *)
(* capture arrays, stale capture ends, frames left on the backtrack        *)
(* stack), they return the same value and leave the same start(g), end(g)  *)
(* and group(g) for every g in 0..N.                                       *)
(***************************************************************************)
\* start(g), end(g) and group(g) of a matcher that is put aside, g in 0..N
C37_start(m, g) ==
    IF m.fMatch = FALSE THEN [val |-> -1, status |-> U_REGEX_INVALID_STATE]
    ELSE IF g = 0 THEN [val |-> m.fMatchStart, status |-> U_ZERO_ERROR]
    ELSE [val |-> m.fCaptureStarts[g], status |-> U_ZERO_ERROR]
C37_end(m, g) ==
    IF m.fMatch = FALSE THEN [val |-> -1, status |-> U_REGEX_INVALID_STATE]
    ELSE IF g = 0 THEN [val |-> m.fMatchEnd, status |-> U_ZERO_ERROR]
    ELSE IF m.fCaptureStarts[g] # -1 THEN [val |-> m.fCaptureEnds[g], status |-> U_ZERO_ERROR]
    ELSE [val |-> -1, status |-> U_ZERO_ERROR]
C37_group(m, g) ==
    LET st == C37_start(m, g)
        en == C37_end(m, g)
    IN  IF U_FAILURE(st.status) \/ st.val < 0 THEN [val |-> << >>, status |-> st.status]
        ELSE [val |-> Substring(m.fInput, st.val, en.val - st.val), status |-> st.status]
\* the second matcher has returned from the call the first one returned
\* from, with the same subject, start index, replacement text and status
C37_SameCall ==
    /\ Reference
    /\ pc = "returned" /\ call \in HistoryFreeCalls
    /\ call = otherMatcher.call
    /\ fInput = otherMatcher.fInput
    /\ priorMatchEnd = otherMatcher.priorMatchEnd
    /\ err = otherMatcher.err
C37_SameObserved ==
    \A g \in 0..fNumCaptureGroups :
        /\ start(g, U_ZERO_ERROR) = C37_start(otherMatcher, g)
        /\ end(g, U_ZERO_ERROR) = C37_end(otherMatcher, g)
        /\ group(g, U_ZERO_ERROR) = C37_group(otherMatcher, g)
C37_Rejected ==
    \/ err = U_ILLEGAL_ARGUMENT_ERROR
    \/ call = "findStart" /\ err = U_INDEX_OUTOFBOUNDS_ERROR
C37_SameUnlessRejected ==
    C37_SameCall => (ret = otherMatcher.ret /\ (~C37_Rejected => C37_SameObserved))
\* a call that is turned down leaves the matcher as its history left it
C37_RejectedLeaves ==
    (pc = "idle" /\ pc' = "returned" /\ call' \in HistoryFreeCalls /\ C37_Rejected')
        => UNCHANGED matcher
C38_Scan ==
    (pc = "find" /\ call = "find") =>
        /\ pc' = "MatchAt" => (startIdx' = startPos /\ startIdx' < fInputLength)
        /\ startPos >= fInputLength => (pc' = "returned" /\ ret' = FALSE)
\* on an empty input find() returns false
C38_Empty == (Returned("find") /\ fInputLength = 0) => ret = FALSE
\* \z is not found by find() on any input
C38_EndNotFound == (sharedPattern = PatEndOnly /\ Returned("find")) => ret = FALSE
\* lookingAt() finds \z on the empty input, as the empty match at 0
C38_LookingAtFinds ==
    (/\ sharedPattern = PatEndOnly /\ fInputLength = 0
     /\ Returned("lookingAt") /\ err = U_ZERO_ERROR) =>
        /\ ret = TRUE
        /\ start(0, U_ZERO_ERROR).val = 0 /\ end(0, U_ZERO_ERROR).val = 0
C38_FindBelowEnd ==
    [][C38_Scan]_vars /\ [](C38_Empty /\ C38_EndNotFound /\ C38_LookingAtFinds)
\* C38's case: find() over \z has returned false on the empty input, where
\* the match flag still says that lookingAt() found the empty match before
C38_Witness ==
    /\ sharedPattern = PatEndOnly /\ fInputLength = 0
    /\ Returned("find") /\ ret = FALSE
    /\ fMatch = TRUE /\ fMatchStart = 0 /\ fMatchEnd = 0

(***************************************************************************)
(* C39: when the replacement text names a group number greater than N,     *)
(* appendReplacement sets the status to INDEX_OUTOFBOUNDS and stops        *)
(* processing the replacement there; dest keeps the text between the       *)
(* matches and the part of the expansion appended so far, the matcher is   *)
(* unchanged, and replaceAll then leaves its find loop and still appends   *)
(* the tail.                                                               *)
(***************************************************************************)
\* the expansion of repl from its i-th code unit up to the first group
\* number greater than N
RECURSIVE C39_Before(_, _)
C39_Before(repl, i) ==
    IF i > Len(repl) THEN << >>
    ELSE IF repl[i] = BACKSLASH
    THEN IF i = Len(repl) THEN << >>
         ELSE << repl[i + 1] >> \o C39_Before(repl, i + 2)
    ELSE IF repl[i] = DOLLARSIGN
    THEN LET k == DigitsFrom(repl, i + 1, 0)
             g == NumberFrom(repl, i + 1, k)
         IN  IF k = 0 THEN << DOLLARSIGN >> \o C39_Before(repl, i + 1)
             ELSE IF g > fNumCaptureGroups THEN << >>
             ELSE group(g, U_ZERO_ERROR).val \o C39_Before(repl, i + 1 + k)
    ELSE << repl[i] >> \o C39_Before(repl, i + 1)
\* repl names a group number greater than N
C39_NamesNoGroup(repl) == ~NamesOnlyGroups(repl, 1)
\* with a match, appendReplacement ends with INDEX_OUTOFBOUNDS and dest grown
\* by the text between the matches and the expansion up to the group
C39_Stops ==
    (Quiescent /\ fMatch) =>
        \A d \in Dests, repl \in ReplacementTexts :
            C39_NamesNoGroup(repl) =>
                appendReplacement(d, repl, U_ZERO_ERROR)
                    = [dest |-> d \o InputRange(fLastMatchEnd, fMatchStart)
                                  \o C39_Before(repl, 1),
                       status |-> U_INDEX_OUTOFBOUNDS_ERROR]
\* the call leaves every field of the matcher as it was
C39_Frame ==
    (pc = "idle" /\ call' = "appendReplacement" /\ err' = U_INDEX_OUTOFBOUNDS_ERROR)
        => UNCHANGED matcher
\* replaceAll leaves its loop at the match where appendReplacement failed,
\* with the matcher as find() left it
C39_LeavesLoop ==
    (pc = "replaceAll" /\ ret = TRUE /\ C39_NamesNoGroup(replacement)) =>
        /\ pc' = "returned" /\ err' = U_INDEX_OUTOFBOUNDS_ERROR
        /\ UNCHANGED matcher
\* and returns the subject with the first match replaced by the expansion up
\* to the group: the text after the match is appended
C39_Tail ==
    (Returned("replaceAll") /\ err = U_INDEX_OUTOFBOUNDS_ERROR) =>
        /\ fMatch /\ C39_NamesNoGroup(replacement)
        /\ fLastMatchEnd = 0
        /\ ret = InputRange(0, fMatchStart) \o C39_Before(replacement, 1)
                    \o InputRange(fMatchEnd, fInputLength)
C39_GroupOutOfRange == [][C39_Frame /\ C39_LeavesLoop]_vars /\ [](C39_Stops /\ C39_Tail)
\* C39's case: appendReplacement("x$2") on a dest that was not empty, with a
\* match behind the match before it: dest has grown by the text between
\* and the x
C39_Witness ==
    /\ Returned("appendReplacement")
    /\ fMatch /\ fMatchStart > fLastMatchEnd
    /\ replacement = << 120, DOLLARSIGN, 50 >> /\ fNumCaptureGroups < 2
    /\ err = U_INDEX_OUTOFBOUNDS_ERROR
    /\ Len(userDest) = 1 + (fMatchStart - fLastMatchEnd) + 1
\* and replaceAll("$1x") has returned over a pattern without groups, the
\* match cut out and the text before and after it kept
C39_WitnessReplaceAll ==
    /\ Returned("replaceAll") /\ err = U_INDEX_OUTOFBOUNDS_ERROR
    /\ fMatchStart > 0 /\ fMatchEnd < fInputLength
    /\ Len(ret) = fInputLength - (fMatchEnd - fMatchStart)

=============================================================================
